---------------------------- MODULE Spec2Model ----------------------------
(***************************************************************************)
(* anim5s room coordination server (V45, src/unnamed/part_001 lines        *)
(* 30-1190; the V42 handlers of src/server.cjs are the same code without   *)
(* the quarantine and rate-limit checks).                                  *)
(*                                                                         *)
(* One process, one event loop: every WebSocket message handler, HTTP      *)
(* handler and timer callback runs to completion, so each is one action.   *)
(* now() is read as one instant per handler.                               *)
(*                                                                         *)
(* Left out of the room record: theme, createdAt, updatedAt (no handler    *)
(* branches on them).  Tokens are minted fresh (token() joins two          *)
(* Math.random strings); room ids are NOT assumed fresh: id7() is any id.  *)
(*                                                                         *)
(* Spec follows requests that passed the rate limiter and file writes that *)
(* succeed; the clock, the reservation time and the cache limits are       *)
(* scaled down to single ticks and a one-room cache.                       *)
(***************************************************************************)
EXTENDS Integers, Sequences, FiniteSets, TLC

\* ------------------------------------------------------------- bounds ---
\* Frames per room: 60 in the source, scaled down.
FrameCount == 3
\* The clock stops at MaxTime.
MaxTime == 1
\* Number of reservation tokens minted in a run.
MaxTok == 2
\* Number of reservation tokens minted in a run that fills a room twice.
MaxTokRefill == 4

\* ---------------------------------------------------- program constants -
RESERVATION_MS == 1
ROOM_CACHE_MAX == 1
ROOM_CACHE_IDLE_MS == 0

\* ----------------------------------------------------------- universes --
RoomIds == {"R1", "R2"}
\* what a client may put in data.roomId: a valid id, an id that needs
\* trimming/upper-casing, garbage, or nothing
RawRoomIds == {"R1", " r2", "bad!", ""}
ConnSeq == <<"c1", "c2">>
Conns == {ConnSeq[i] : i \in 1..Len(ConnSeq)}
ValidDataUrls == {"data:image/a", "data:image/b"}
DataUrls == ValidDataUrls \cup {"javascript:x"}
Frames == 0..(FrameCount - 1)
IdxArgs == 0..FrameCount
Toks == 1..MaxTok
TokArgs == 0..MaxTok
NoTok == 0
NULL == "null"

\* ------------------------------------------------------ pure helpers ----
\* normalizeRoomId: trim, upper-case, match /^[A-Z0-9]{6,12}$/, else "".
normalizeRoomId(x) ==
  CASE x \in RoomIds -> x
    [] x = " r2" -> "R2"
    [] OTHER -> ""

\* d.roomId || ws._roomId
OrElse(a, b) == IF a = "" THEN b ELSE a

validatePngDataUrl(s) == s \in ValidDataUrls

AllCommitted(committed) == \A i \in Frames : committed[i]

FilledCount(committed) == Cardinality({i \in Frames : committed[i]})

Min(S) == CHOOSE x \in S : \A y \in S : x <= y

\* ------------------------------------------------------ reservations ----
\* a reservation entry of the Map, in insertion order: [tok, frameIndex, expiresAt]
Resv(tok, fi, ex) == [tok |-> tok, frameIndex |-> fi, expiresAt |-> ex]

\* room.reservations.has(tok) / room.reservations.get(tok)
HasResv(reservations, tok) == \E i \in 1..Len(reservations) : reservations[i].tok = tok

\* fault: the lookup returns the oldest reservation of the room, whatever the token
ResvGet_first(reservations, tok) == reservations[1]

ResvGet(reservations, tok) ==
  reservations[CHOOSE i \in 1..Len(reservations) : reservations[i].tok = tok]

\* fault: cleanupReservations without the expiry test
\* fault: cleanupReservations without the committed test
Stale_noCommitted(room, e, t) ==
  LET expired == e.expiresAt <= t
      invalid == ~(e.frameIndex >= 0 /\ e.frameIndex < FrameCount)
  IN expired \/ invalid

Stale_noExpiry(room, e, t) ==
  LET invalid == ~(e.frameIndex >= 0 /\ e.frameIndex < FrameCount)
      committed == IF ~invalid THEN room.committed[e.frameIndex] ELSE FALSE
  IN committed \/ invalid

\* the entry cleanupReservations deletes
Stale(room, e, t) ==
  LET expired == e.expiresAt <= t
      invalid == ~(e.frameIndex >= 0 /\ e.frameIndex < FrameCount)
      committed == IF ~invalid THEN room.committed[e.frameIndex] ELSE FALSE
  IN expired \/ committed \/ invalid

\* fault: cleanupReservations that leaves reservedByFrame as it was
cleanupReservations_keepFrame(room, t) ==
  [room EXCEPT !.reservations = SelectSeq(room.reservations, LAMBDA e : ~Stale(room, e, t))]

cleanupReservations(room, t) ==
  LET gone == {i \in 1..Len(room.reservations) : Stale(room, room.reservations[i], t)}
      kept == SelectSeq(room.reservations, LAMBDA e : ~Stale(room, e, t))
      rbf == [f \in Frames |->
                IF \E i \in gone : /\ room.reservations[i].frameIndex = f
                                   /\ room.reservedByFrame[f] = room.reservations[i].tok
                THEN NoTok ELSE room.reservedByFrame[f]]
  IN [room EXCEPT !.reservations = kept, !.reservedByFrame = rbf]

\* fault: normalizePhase with the two phases exchanged
normalizePhase_inverted(room) ==
  [room EXCEPT !.phase = IF AllCommitted(room.committed) THEN "DRAWING" ELSE "PLAYBACK"]

normalizePhase(room) ==
  [room EXCEPT !.phase = IF AllCommitted(room.committed) THEN "PLAYBACK" ELSE "DRAWING"]

\* fault: deserializeRoom that does not read obj.committed
deserializeRoom_dropCommitted(obj, t) ==
  LET res == SelectSeq(obj.reservations,
                LAMBDA e : /\ e.tok # NoTok
                           /\ e.frameIndex >= 0 /\ e.frameIndex < FrameCount
                           /\ e.expiresAt > 0)
      rbf == [f \in Frames |->
                LET S == {i \in 1..Len(res) : res[i].frameIndex = f}
                IN IF S = {} THEN NoTok
                   ELSE res[CHOOSE i \in S : \A j \in S : j <= i].tok]
      room == [frames |-> obj.frames, committed |-> [i \in Frames |-> FALSE],
               phase |-> obj.phase, reservations |-> res, reservedByFrame |-> rbf]
  IN normalizePhase(cleanupReservations(room, t))

\* JSON room file -> room object (null when the file has no valid roomId:
\* files are keyed by the id they were saved under, so that never happens)
deserializeRoom(obj, t) ==
  LET res == SelectSeq(obj.reservations,
                LAMBDA e : /\ e.tok # NoTok
                           /\ e.frameIndex >= 0 /\ e.frameIndex < FrameCount
                           /\ e.expiresAt > 0)
      rbf == [f \in Frames |->
                LET S == {i \in 1..Len(res) : res[i].frameIndex = f /\ ~obj.committed[f]}
                IN IF S = {} THEN NoTok
                   ELSE res[CHOOSE i \in S : \A j \in S : j <= i].tok]
      room == [frames |-> obj.frames, committed |-> obj.committed, phase |-> obj.phase,
               reservations |-> res, reservedByFrame |-> rbf]
  IN normalizePhase(cleanupReservations(room, t))

serializeRoom(room, t) ==
  LET r == normalizePhase(cleanupReservations(room, t))
  IN [frames |-> r.frames, committed |-> r.committed, phase |-> r.phase,
      reservations |-> r.reservations]

IndexEntry(room) ==
  [filledCount |-> FilledCount(room.committed), completed |-> room.phase = "PLAYBACK"]

\* fault: firstYoungestEmpty that does not look at reservedByFrame
firstYoungestEmpty_ignoreReserved(room, t) ==
  LET S == {i \in Frames : ~room.committed[i]}
  IN IF S = {} THEN -1 ELSE Min(S)

firstYoungestEmpty(room, t) ==
  LET r == cleanupReservations(room, t)
      S == {i \in Frames : ~r.committed[i] /\ r.reservedByFrame[i] = NoTok}
  IN IF S = {} THEN -1 ELSE Min(S)

roomState(room, t) ==
  LET r == normalizePhase(cleanupReservations(room, t))
  IN [phase |-> r.phase, filled |-> r.committed, completed |-> r.phase = "PLAYBACK"]

\* ------------------------------------------------------------- state ----
VARIABLES
  now,            \* Date.now()
  cache,          \* cache: roomId -> [room, lastAccess]
  cacheOrder,     \* insertion order of the cache Map
  disk,           \* rooms/<ROOMID>.json
  index,          \* index (in memory)
  diskIndex,      \* rooms_index.json
  indexReadable,  \* rooms_index.json exists and parses to an object
  quarantineSet,  \* quarantineSet (in memory)
  diskQuarantine, \* quarantine.json
  dirtyRoomIds,   \* dirtyRoomIds
  clients,        \* wss.clients
  wsRoomId,       \* ws._roomId of each connection
  issued,         \* every token minted so far: issued[tok] = [roomId, frameIndex, expiresAt, conn]
  announced,      \* <<roomId, i>> for which frame_committed was broadcast
  submittedCnt,   \* number of `submitted` replies per <<roomId, i>> (counted up to 2)
  playbackCnt,    \* number of start_playback broadcasts per roomId (counted up to 2)
  RATE_BUCKETS,   \* RATE_BUCKETS: <<ip, op>> -> [count, resetAt]
  rateLog,        \* every message that reached the rate limiter: who, when, what came of it
  lastBoot,       \* what the last start-up found: [indexLost, files, tmps]
  tmpFiles,       \* the .tmp_ files an interrupted atomicWriteFile left: path -> content
  backups,        \* backups/: directory name -> [ts, rooms]
  lastBackupAt,   \* lastBackupAt
  backupLog,      \* the time of every backup that ran to its end
  diskWritable    \* writes under DATA_DIR succeed (FALSE: fs.writeFileSync throws)

vars == <<now, cache, cacheOrder, disk, index, diskIndex, quarantineSet, diskQuarantine,
          dirtyRoomIds, clients, wsRoomId, issued, announced, submittedCnt, playbackCnt,
          RATE_BUCKETS, rateLog, indexReadable, lastBoot, tmpFiles,
          backups, lastBackupAt, backupLog, diskWritable>>

storeVars == <<cache, cacheOrder, disk, index, diskIndex, indexReadable, dirtyRoomIds>>
histVars == <<issued, announced, submittedCnt, playbackCnt>>
\* state outside the room store
backupVars == <<backups, lastBackupAt, backupLog>>
sideVars == <<RATE_BUCKETS, rateLog, lastBoot, tmpFiles, backupVars, diskWritable>>

\* ------------------------------------------------------------- store ----
\* The process-wide persistence state a handler reads and writes.
Store == [cache |-> cache, order |-> cacheOrder, disk |-> disk, index |-> index,
          diskIndex |-> diskIndex, readable |-> indexReadable, dirty |-> dirtyRoomIds,
          writable |-> diskWritable]

Put(f, k, v) == [x \in DOMAIN f \cup {k} |-> IF x = k THEN v ELSE f[x]]
Del(f, k) == [x \in DOMAIN f \ {k} |-> f[x]]
EmptyMap == [x \in {} |-> 0]

\* cache.set(id, {room, lastAccess}): a new key goes to the end of the Map
CacheSet(S, id, room, t) ==
  [S EXCEPT !.cache = Put(S.cache, id, [room |-> room, lastAccess |-> t]),
            !.order = IF id \in DOMAIN S.cache THEN S.order ELSE Append(S.order, id)]

\* the cached room object is mutated in place
SetRoom(S, id, room) ==
  IF id \in DOMAIN S.cache
  THEN [S EXCEPT !.cache = Put(S.cache, id, [S.cache[id] EXCEPT !.room = room])]
  ELSE S

\* getRoom(id) finds a room: cached, or a room file exists
CanGetRoom(S, id) == id # "" /\ (id \in DOMAIN S.cache \/ id \in DOMAIN S.disk)

\* store after getRoom(id): lastAccess refreshed, or the file loaded and cached
getRoom(S, id, t) ==
  IF id \in DOMAIN S.cache
  THEN [S EXCEPT !.cache = Put(S.cache, id, [S.cache[id] EXCEPT !.lastAccess = t])]
  ELSE CacheSet(S, id, deserializeRoom(S.disk[id], t), t)

\* a file whose write stopped part-way: JSON.parse throws on it
Torn(data) == [torn |-> TRUE, head |-> data]

\* safeReadJson(fp) returns an object
Parses(x) == "torn" \notin DOMAIN x

\* no file at the path
NoFile == [nofile |-> TRUE]

FileAt(dir, k) == IF k \in DOMAIN dir THEN dir[k] ELSE NoFile
PutFile(dir, k, x) == IF x = NoFile THEN Del(dir, k) ELSE Put(dir, k, x)

\* fault: the data is written straight to fp
atomicWriteFile_inPlace(old, data, stop) ==
  IF stop = "writing" THEN [target |-> Torn(data), tmp |-> NoFile]
  ELSE [target |-> data, tmp |-> NoFile]

\* atomicWriteFile(fp, data) on a path that holds old.  The process may stop
\* inside writeFileSync(tmp) ("writing") or before renameSync ("written");
\* otherwise the call returns ("done").
atomicWriteFile(old, data, stop) ==
  CASE stop = "writing" -> [target |-> old, tmp |-> Torn(data)]
    [] stop = "written" -> [target |-> old, tmp |-> data]
    [] OTHER -> [target |-> data, tmp |-> NoFile]

updateIndexFromRoom(S, id, room) ==
  [S EXCEPT !.index = Put(S.index, id, IndexEntry(room))]

\* saveIndex(): a write that throws is swallowed
saveIndex(S) ==
  IF ~S.writable THEN S
  ELSE [S EXCEPT !.diskIndex = atomicWriteFile(IF S.readable THEN S.diskIndex ELSE NoFile,
                                               S.index, "done").target,
                 !.readable = TRUE]

\* saveRoom(room): when atomicWriteFile throws, the catch swallows it and
\* dirtyRoomIds.add and saveIndex are skipped; the room object and the index
\* in memory keep what was done before the write
saveRoom(S, id, room, t) ==
  LET r == cleanupReservations(normalizePhase(room), t)
      S1 == updateIndexFromRoom(SetRoom(S, id, r), id, r)
      S2 == [S1 EXCEPT !.disk = Put(S1.disk, id,
                                    atomicWriteFile(FileAt(S1.disk, id),
                                                    serializeRoom(r, t), "done").target),
                       !.dirty = S1.dirty \cup {id}]
  IN IF S.writable THEN saveIndex(S2) ELSE S1

\* --------------------------------------------------------- envelopes ----
\* error messages of the source (the Japanese texts, by role)
ERR_BAD_ROOMID == "roomId invalid"                 \* "roomId が不正です"
ERR_NOT_FOUND == "room not found"                  \* "部屋が見つからない"
ERR_DATAURL == "dataUrl invalid or too large"      \* "dataUrl が不正/大きすぎる"
ERR_NO_PUBLIC == "no public room to join"          \* "参加できる公開作品がありません…"
ERR_STALE_INDEX == "room not found (retry)"        \* "部屋が見つからない（再試行してね）"
ERR_NO_ROOM_RETRY == "no room to join (retry)"     \* "参加できる部屋がありません（再試行してね）"
ERR_NO_EMPTY_RETRY == "no empty frame (retry)"     \* "空きコマがありません（再試行してね）"
ERR_NO_EMPTY == "no empty frame"                   \* "空きコマがありません"
ERR_NOT_EDITABLE == "room not editable (completed)" \* "この部屋は編集できません（完成済み）"
ERR_RESERVATION_REJOIN == "reservation invalid or expired, join again" \* "予約が無効/期限切れです。もう一度参加してね"
ERR_NOT_ACCEPTING == "not accepting submissions (completed)" \* "この部屋は提出を受け付けていません（完成済み）"
ERR_BAD_INDEX == "frameIndex invalid"              \* "frameIndex が不正"
ERR_TOKEN_REQUIRED == "reservationToken required"  \* "reservationToken が必要"
ERR_RESERVATION == "reservation invalid or expired" \* "予約が無効/期限切れです"
ERR_MISMATCH == "assigned frame does not match"    \* "担当コマが一致しません"
ERR_ALREADY == "already submitted"                 \* "すでに提出済みです"
ERR_UNKNOWN_TYPE == "unknown message type"         \* "unknown message type: " + t

NoFilled == [i \in Frames |-> FALSE]

\* an outbound envelope {v:1, t, ts, data}; fields a verb does not carry are blank
Env(to, t) ==
  [to |-> to, t |-> t, roomId |-> "", frameIndex |-> -1, message |-> "", code |-> "",
   tok |-> NoTok, expiresAt |-> 0, dataUrl |-> "", phase |-> "", filled |-> NoFilled,
   completed |-> FALSE, retryAfterMs |-> 0]

ErrorEnv(to, message) == [Env(to, "error") EXCEPT !.message = message]

RoomStateEnv(to, t, id, room, tm) ==
  LET st == roomState(room, tm)
  IN [Env(to, t) EXCEPT !.roomId = id, !.phase = st.phase, !.filled = st.filled,
                        !.completed = st.completed]

FrameEnv(to, t, id, idx) == [Env(to, t) EXCEPT !.roomId = id, !.frameIndex = idx]

\* fault: broadcast that does not compare ws._roomId
broadcast_all(ws, id, e) ==
  LET hit == SelectSeq(ConnSeq, LAMBDA c : c \in clients)
  IN [i \in 1..Len(hit) |-> [e EXCEPT !.to = hit[i]]]

\* fault: broadcast compares a property no connection has
broadcast_none(ws, id, e) == <<>>

\* broadcast(roomId, obj): one send per open connection whose _roomId is roomId
broadcast(ws, id, e) ==
  LET hit == SelectSeq(ConnSeq, LAMBDA c : c \in clients /\ ws[c] = id)
  IN [i \in 1..Len(hit) |-> [e EXCEPT !.to = hit[i]]]

\* --------------------------------------------------- handler results ----
\* What one run of a message handler for connection c leaves behind.
Result(S, attach, envs) ==
  [S |-> S, attach |-> attach, out |-> envs, mint |-> <<>>]

Reject(c, message) == Result(Store, wsRoomId[c], <<ErrorEnv(c, message)>>)

\* fault: the quarantine set is never consulted
IsQuarantined_never(roomId) == FALSE

\* quarantineSet.has(roomId)
IsQuarantined(roomId) == roomId \in quarantineSet

\* fault: a quarantined roomId gets a message of its own
QuarantinedReply_distinct(c) == Reject(c, "room quarantined")

\* the reply of a room-addressing verb to a quarantined roomId
QuarantinedReply(c) == Reject(c, ERR_NOT_FOUND)

\* the reply of a room-addressing verb when getRoom returns null
MissingReply(c) == Reject(c, ERR_NOT_FOUND)

token == Len(issued) + 1

\* makeRoom(theme), with roomId the value id7() returned
makeRoom(S, roomId, t) ==
  LET room == [frames |-> [i \in Frames |-> NULL], committed |-> [i \in Frames |-> FALSE],
               phase |-> "DRAWING", reservations |-> <<>>,
               reservedByFrame |-> [i \in Frames |-> NoTok]]
      S1 == CacheSet(S, roomId, room, t)
      S2 == updateIndexFromRoom(S1, roomId, room)
  IN saveRoom(S2, roomId, room, t)

\* fault: the commit sets the flag and forgets the payload
CommitFrame_flagOnly(room, idx, dataUrl) ==
  [room EXCEPT !.committed[idx] = TRUE]

\* the commit of submit_frame and create_public_and_submit
CommitFrame(room, idx, dataUrl) ==
  [room EXCEPT !.frames[idx] = dataUrl, !.committed[idx] = TRUE]

create_public_and_submit(c, dataUrl, newId) ==
  IF ~validatePngDataUrl(dataUrl) THEN Reject(c, ERR_DATAURL)
  ELSE
    LET S1 == makeRoom(Store, newId, now)
        room == CommitFrame(S1.cache[newId].room, 0, dataUrl)
        S2 == saveRoom(S1, newId, room, now)
        ws2 == [wsRoomId EXCEPT ![c] = newId]
        r2 == S2.cache[newId].room
    IN Result(S2, newId,
              <<RoomStateEnv(c, "created_public", newId, r2, now)>>
              \o broadcast(ws2, newId, FrameEnv(c, "frame_committed", newId, 0)))

\* the candidates of findRandomOpenRoomId
OpenRoomIds ==
  {rid \in DOMAIN index : /\ ~IsQuarantined(rid)
                          /\ ~index[rid].completed
                          /\ ~(index[rid].filledCount >= FrameCount)}

\* the reservation branch shared by join_random and join_by_id
Reserve(c, S, id, room, idx) ==
  LET ex == now + RESERVATION_MS
      r1 == [room EXCEPT !.reservations = Append(@, Resv(token, idx, ex)),
                         !.reservedByFrame[idx] = token]
      S1 == saveRoom(SetRoom(S, id, r1), id, r1, now)
      r2 == S1.cache[id].room
  IN [Result(S1, id,
             <<[Env(c, "room_joined") EXCEPT !.roomId = id, !.frameIndex = idx,
                   !.tok = token, !.expiresAt = ex, !.filled = roomState(r2, now).filled]>>)
      EXCEPT !.mint = <<[roomId |-> id, frameIndex |-> idx, expiresAt |-> ex, conn |-> c]>>]

\* join_random, with rid the candidate findRandomOpenRoomId drew
join_random(c, rid) ==
  IF OpenRoomIds = {} THEN Reject(c, ERR_NO_PUBLIC)
  ELSE IF ~CanGetRoom(Store, rid)
  THEN LET S1 == saveIndex([Store EXCEPT !.index = Del(Store.index, rid)])
       IN Result(S1, wsRoomId[c], <<ErrorEnv(c, ERR_STALE_INDEX)>>)
  ELSE
    LET S1 == getRoom(Store, rid, now)
        room == normalizePhase(S1.cache[rid].room)
        S2 == SetRoom(S1, rid, room)
    IN IF room.phase # "DRAWING"
       THEN Result(saveIndex(updateIndexFromRoom(S2, rid, room)), wsRoomId[c],
                   <<ErrorEnv(c, ERR_NO_ROOM_RETRY)>>)
       ELSE
         LET idx == firstYoungestEmpty(room, now)
             rc == cleanupReservations(room, now)
         IN IF idx < 0
            THEN Result(saveRoom(updateIndexFromRoom(S2, rid, rc), rid, rc, now),
                        wsRoomId[c], <<ErrorEnv(c, ERR_NO_EMPTY_RETRY)>>)
            ELSE Reserve(c, S2, rid, rc, idx)

join_by_id(c, rawId) ==
  LET roomId == normalizeRoomId(rawId)
  IN IF roomId = "" THEN Reject(c, ERR_BAD_ROOMID)
     ELSE IF IsQuarantined(roomId) THEN QuarantinedReply(c)
     ELSE IF ~CanGetRoom(Store, roomId) THEN MissingReply(c)
     ELSE
       LET S1 == getRoom(Store, roomId, now)
           room == normalizePhase(S1.cache[roomId].room)
           S2 == SetRoom(S1, roomId, room)
       IN IF room.phase # "DRAWING"
          THEN Result(S2, wsRoomId[c], <<ErrorEnv(c, ERR_NOT_FOUND)>>)
          ELSE
            LET idx == firstYoungestEmpty(room, now)
                rc == cleanupReservations(room, now)
            IN IF idx < 0
               THEN Result(saveRoom(updateIndexFromRoom(S2, roomId, rc), roomId, rc, now),
                           wsRoomId[c], <<ErrorEnv(c, ERR_NO_EMPTY)>>)
               ELSE Reserve(c, S2, roomId, rc, idx)

join_room(c, rawId, view, tokArg) ==
  LET roomId == normalizeRoomId(OrElse(rawId, wsRoomId[c]))
  IN IF roomId = "" THEN Reject(c, ERR_BAD_ROOMID)
     ELSE IF IsQuarantined(roomId) THEN QuarantinedReply(c)
     ELSE IF ~CanGetRoom(Store, roomId) THEN MissingReply(c)
     ELSE
       LET S1 == getRoom(Store, roomId, now)
           room == normalizePhase(S1.cache[roomId].room)
           S2 == SetRoom(S1, roomId, room)
           rc == cleanupReservations(room, now)
           S3 == SetRoom(S2, roomId, rc)
       IN IF ~view /\ tokArg # NoTok
          THEN IF room.phase # "DRAWING"
               THEN Result(S2, roomId, <<ErrorEnv(c, ERR_NOT_EDITABLE)>>)
               ELSE IF \/ ~HasResv(rc.reservations, tokArg)
                       \/ ResvGet(rc.reservations, tokArg).expiresAt <= now
               THEN Result(S3, roomId, <<ErrorEnv(c, ERR_RESERVATION_REJOIN)>>)
               ELSE Result(S3, roomId, <<RoomStateEnv(c, "room_state", roomId, rc, now)>>)
          ELSE Result(S3, roomId, <<RoomStateEnv(c, "room_state", roomId, rc, now)>>)

\* the first "resync" branch of the handler (the second one is never reached)
resync(c, rawId) ==
  LET roomId == normalizeRoomId(OrElse(rawId, wsRoomId[c]))
  IN IF roomId = "" THEN Reject(c, ERR_BAD_ROOMID)
     ELSE IF IsQuarantined(roomId) THEN QuarantinedReply(c)
     ELSE IF ~CanGetRoom(Store, roomId) THEN MissingReply(c)
     ELSE
       LET S1 == getRoom(Store, roomId, now)
           rc == normalizePhase(cleanupReservations(S1.cache[roomId].room, now))
       IN Result(SetRoom(S1, roomId, rc), roomId,
                 <<RoomStateEnv(c, "room_state", roomId, rc, now)>>)

get_frame(c, rawId, idx) ==
  LET roomId == normalizeRoomId(OrElse(rawId, wsRoomId[c]))
  IN IF roomId = "" THEN Reject(c, ERR_BAD_ROOMID)
     ELSE IF IsQuarantined(roomId) THEN QuarantinedReply(c)
     ELSE IF ~CanGetRoom(Store, roomId) THEN MissingReply(c)
     ELSE
       LET S1 == getRoom(Store, roomId, now)
           room == S1.cache[roomId].room
       IN IF idx < 0 \/ idx >= FrameCount
          THEN Result(S1, wsRoomId[c], <<ErrorEnv(c, ERR_BAD_INDEX)>>)
          ELSE IF ~room.committed[idx] \/ room.frames[idx] = NULL
          THEN Result(S1, wsRoomId[c], <<>>)
          ELSE Result(S1, wsRoomId[c],
                      <<[FrameEnv(c, "frame_data", roomId, idx)
                           EXCEPT !.dataUrl = room.frames[idx]]>>)

submit_frame(c, rawId, idx, tok, dataUrl) ==
  LET roomId == normalizeRoomId(OrElse(rawId, wsRoomId[c]))
  IN IF roomId = "" THEN Reject(c, ERR_BAD_ROOMID)
     ELSE IF IsQuarantined(roomId) THEN QuarantinedReply(c)
     ELSE IF ~CanGetRoom(Store, roomId) THEN MissingReply(c)
     ELSE
       LET S1 == getRoom(Store, roomId, now)
           room == cleanupReservations(normalizePhase(S1.cache[roomId].room), now)
           S2 == SetRoom(S1, roomId, room)
           Fail(message) == Result(S2, wsRoomId[c], <<ErrorEnv(c, message)>>)
       IN IF room.phase # "DRAWING" THEN Fail(ERR_NOT_ACCEPTING)
          ELSE IF idx < 0 \/ idx >= FrameCount THEN Fail(ERR_BAD_INDEX)
          ELSE IF tok = NoTok THEN Fail(ERR_TOKEN_REQUIRED)
          ELSE IF \/ ~HasResv(room.reservations, tok)
                  \/ ResvGet(room.reservations, tok).expiresAt <= now
          THEN Fail(ERR_RESERVATION)
          ELSE IF ResvGet(room.reservations, tok).frameIndex # idx THEN Fail(ERR_MISMATCH)
          ELSE IF room.committed[idx] THEN Fail(ERR_ALREADY)
          ELSE IF ~validatePngDataUrl(dataUrl) THEN Fail(ERR_DATAURL)
          ELSE
            LET r1 == CommitFrame(room, idx, dataUrl)
                r2 == [r1 EXCEPT !.reservations = SelectSeq(@, LAMBDA e : e.tok # tok),
                                 !.reservedByFrame[idx] = NoTok]
                S3 == saveRoom(SetRoom(S2, roomId, r2), roomId, r2, now)
                r3 == S3.cache[roomId].room
                done == AllCommitted(r3.committed)
                r4 == [r3 EXCEPT !.phase = "PLAYBACK"]
                S4 == IF done THEN saveRoom(SetRoom(S3, roomId, r4), roomId, r4, now) ELSE S3
                r5 == S4.cache[roomId].room
                first == broadcast(wsRoomId, roomId, FrameEnv(c, "frame_committed", roomId, idx))
                         \o <<FrameEnv(c, "submitted", roomId, idx)>>
                last == IF done
                        THEN broadcast(wsRoomId, roomId, [Env(c, "start_playback") EXCEPT !.roomId = roomId])
                             \o broadcast(wsRoomId, roomId, RoomStateEnv(c, "room_state", roomId, r5, now))
                        ELSE <<>>
            IN Result(S4, wsRoomId[c], first \o last)

\* ------------------------------------------------------------ actions ---
\* the <<roomId, frameIndex>> of the envelopes of type t among envs
Sent(envs, t) ==
  {<<envs[i].roomId, envs[i].frameIndex>> : i \in {k \in 1..Len(envs) : envs[k].t = t}}

\* the state a handler run for connection c leaves
Handled(c, R) ==
  /\ cache' = R.S.cache
  /\ cacheOrder' = R.S.order
  /\ disk' = R.S.disk
  /\ index' = R.S.index
  /\ diskIndex' = R.S.diskIndex
  /\ indexReadable' = R.S.readable
  /\ dirtyRoomIds' = R.S.dirty
  /\ wsRoomId' = [wsRoomId EXCEPT ![c] = R.attach]
  /\ issued' = issued \o R.mint
  /\ announced' = announced \cup Sent(R.out, "frame_committed")
  /\ submittedCnt' = [p \in DOMAIN submittedCnt |->
                        IF p \in Sent(R.out, "submitted") /\ submittedCnt[p] < 2
                        THEN submittedCnt[p] + 1 ELSE submittedCnt[p]]
  /\ playbackCnt' = [r \in DOMAIN playbackCnt |->
                       IF <<r, -1>> \in Sent(R.out, "start_playback") /\ playbackCnt[r] < 2
                       THEN playbackCnt[r] + 1 ELSE playbackCnt[r]]
  /\ UNCHANGED <<now, quarantineSet, diskQuarantine, clients>>

\* a handler run whose message is far below its rate limit
Apply(c, R) == \E Q \in {R} : Handled(c, Q) /\ UNCHANGED sideVars

Init ==
  /\ now = 0
  /\ cache = EmptyMap
  /\ cacheOrder = <<>>
  /\ disk = EmptyMap
  /\ index = EmptyMap
  /\ diskIndex = EmptyMap
  /\ indexReadable = FALSE
  /\ quarantineSet = {}
  /\ diskQuarantine = {}
  /\ dirtyRoomIds = {}
  /\ clients = {}
  /\ wsRoomId = [c \in Conns |-> ""]
  /\ issued = <<>>
  /\ announced = {}
  /\ submittedCnt = [p \in RoomIds \X Frames |-> 0]
  /\ playbackCnt = [r \in RoomIds |-> 0]
  /\ RATE_BUCKETS = EmptyMap
  /\ rateLog = <<>>
  /\ lastBoot = [indexLost |-> TRUE, files |-> {}, tmps |-> {}]
  /\ tmpFiles = EmptyMap
  /\ backups = EmptyMap
  /\ lastBackupAt = 0
  /\ backupLog = <<>>
  /\ diskWritable = TRUE

Tick ==
  /\ now < MaxTime
  /\ now' = now + 1
  /\ UNCHANGED <<storeVars, quarantineSet, diskQuarantine, clients, wsRoomId, histVars, sideVars>>

\* wss.on("connection")
Connect(c) ==
  /\ c \notin clients
  /\ clients' = clients \cup {c}
  /\ wsRoomId' = [wsRoomId EXCEPT ![c] = ""]
  /\ UNCHANGED <<now, storeVars, quarantineSet, diskQuarantine, histVars, sideVars>>

\* ws.on("close"): the connection leaves wss.clients; nothing else is touched
Close(c) ==
  /\ c \in clients
  /\ clients' = clients \ {c}
  /\ wsRoomId' = [wsRoomId EXCEPT ![c] = ""]
  /\ UNCHANGED <<now, storeVars, quarantineSet, diskQuarantine, histVars, sideVars>>

Hello(c) ==
  /\ c \in clients
  /\ Apply(c, Result(Store, wsRoomId[c], <<Env(c, "welcome")>>))

UnknownVerb(c) ==
  /\ c \in clients
  /\ Apply(c, Reject(c, ERR_UNKNOWN_TYPE))

Resync(c, rawId) ==
  /\ c \in clients
  /\ Apply(c, resync(c, rawId))

CreatePublicAndSubmit(c, dataUrl, newId) ==
  /\ c \in clients
  /\ Apply(c, create_public_and_submit(c, dataUrl, newId))

JoinRandom(c, rid) ==
  /\ c \in clients
  /\ OpenRoomIds # {} => rid \in OpenRoomIds
  /\ LET R == join_random(c, rid)
     IN /\ Len(issued) + Len(R.mint) <= MaxTok
        /\ Apply(c, R)

JoinById(c, rawId) ==
  /\ c \in clients
  /\ LET R == join_by_id(c, rawId)
     IN /\ Len(issued) + Len(R.mint) <= MaxTok
        /\ Apply(c, R)

JoinRoom(c, rawId, view, tokArg) ==
  /\ c \in clients
  /\ Apply(c, join_room(c, rawId, view, tokArg))

GetFrame(c, rawId, idx) ==
  /\ c \in clients
  /\ Apply(c, get_frame(c, rawId, idx))

SubmitFrame(c, rawId, idx, tok, dataUrl) ==
  /\ c \in clients
  /\ Apply(c, submit_frame(c, rawId, idx, tok, dataUrl))

\* fault: size eviction takes the newest lastAccess first
evictCacheWith_newestFirst(S, t, idleMs, max) ==
  LET idle == {id \in DOMAIN S.cache : (t - S.cache[id].lastAccess) > idleMs}
      ord1 == SelectSeq(S.order, LAMBDA id : id \notin idle)
      over == Len(ord1) - max
      Before(i, j) == \/ S.cache[ord1[i]].lastAccess > S.cache[ord1[j]].lastAccess
                      \/ /\ S.cache[ord1[i]].lastAccess = S.cache[ord1[j]].lastAccess
                         /\ i < j
      Rank(i) == Cardinality({j \in 1..Len(ord1) : Before(j, i)})
      drop == IF over > 0 THEN {ord1[i] : i \in {k \in 1..Len(ord1) : Rank(k) < over}} ELSE {}
      gone == idle \cup drop
  IN [S EXCEPT !.cache = [id \in DOMAIN S.cache \ gone |-> S.cache[id]],
               !.order = SelectSeq(S.order, LAMBDA id : id \notin gone)]

\* evictCache() under given values of ROOM_CACHE_IDLE_MS and ROOM_CACHE_MAX:
\* idle eviction, then size eviction, oldest lastAccess first
\* (Array.prototype.sort is stable: ties go in Map insertion order)
evictCacheWith(S, t, idleMs, max) ==
  LET idle == {id \in DOMAIN S.cache : (t - S.cache[id].lastAccess) > idleMs}
      ord1 == SelectSeq(S.order, LAMBDA id : id \notin idle)
      over == Len(ord1) - max
      Before(i, j) == \/ S.cache[ord1[i]].lastAccess < S.cache[ord1[j]].lastAccess
                      \/ /\ S.cache[ord1[i]].lastAccess = S.cache[ord1[j]].lastAccess
                         /\ i < j
      Rank(i) == Cardinality({j \in 1..Len(ord1) : Before(j, i)})
      drop == IF over > 0 THEN {ord1[i] : i \in {k \in 1..Len(ord1) : Rank(k) < over}} ELSE {}
      gone == idle \cup drop
  IN [S EXCEPT !.cache = [id \in DOMAIN S.cache \ gone |-> S.cache[id]],
               !.order = SelectSeq(S.order, LAMBDA id : id \notin gone)]

evictCache(S, t) == evictCacheWith(S, t, ROOM_CACHE_IDLE_MS, ROOM_CACHE_MAX)

EvictCache ==
  /\ LET S1 == evictCache(Store, now)
     IN /\ cache' = S1.cache
        /\ cacheOrder' = S1.order
  /\ UNCHANGED <<now, disk, index, diskIndex, indexReadable, dirtyRoomIds, quarantineSet, diskQuarantine,
                 clients, wsRoomId, histVars, sideVars>>

\* GET /admin/quarantine?roomId=&mode= from an authorized caller
adminQuarantine(Q, roomId, mode) ==
  LET quarantined == CASE mode = "on" -> TRUE
                       [] mode = "off" -> FALSE
                       [] OTHER -> ~(roomId \in Q)
  IN IF quarantined THEN Q \cup {roomId} ELSE Q \ {roomId}

AdminQuarantine(rawId, mode) ==
  /\ quarantineSet' = IF normalizeRoomId(rawId) = "" THEN quarantineSet
                      ELSE adminQuarantine(quarantineSet, normalizeRoomId(rawId), mode)
  /\ diskQuarantine' = IF normalizeRoomId(rawId) # "" /\ diskWritable
                       THEN quarantineSet' ELSE diskQuarantine
  /\ UNCHANGED <<now, storeVars, clients, wsRoomId, histVars, sideVars>>

\* paths: <<directory, name, extension>>, and fp + ".tmp_" + pid + "_" + Date.now()
roomFile(id) == <<"rooms", id, ".json">>
INDEX_FILE == <<"data", "rooms_index", ".json">>
tmpName(fp, t) == fp \o <<".tmp_", ToString(t)>>
endsWith(f, suffix) == f[Len(f)] = suffix

\* readdirSync(ROOMS_DIR), each name with the content of its file
readRoomsDir(files, tmps) ==
  [f \in {roomFile(id) : id \in DOMAIN files} \cup {g \in DOMAIN tmps : g[1] = "rooms"} |->
     IF f \in DOMAIN tmps THEN tmps[f] ELSE files[f[2]]]

\* rebuildIndexFromDisk(): names not ending in .json and files that do not
\* parse are skipped; the roomId is the one the file was saved under
rebuildIndexFromDisk(dir) ==
  LET kept == {f \in DOMAIN dir : endsWith(f, ".json") /\ Parses(dir[f])}
  IN [rid \in {f[2] : f \in kept} |->
        LET obj == dir[CHOOSE f \in kept : f[2] = rid]
            filledCount == FilledCount(obj.committed)
        IN [filledCount |-> filledCount,
            completed |-> (obj.phase = "PLAYBACK") \/ filledCount >= FrameCount]]

\* fault: start-up trusts whatever loadIndex() returned
StartIndex_noRebuild(files, idxFile) == idxFile

\* module start-up: rebuild when loadIndex() returned an empty index
StartIndex(files, idxFile) ==
  IF DOMAIN idxFile = {} /\ DOMAIN rebuildIndexFromDisk(files) # {}
  THEN rebuildIndexFromDisk(files) ELSE idxFile

\* loadIndex(): {} when the file is missing or does not parse
loadIndex(readable, idxFile) == IF readable THEN idxFile ELSE EmptyMap

\* module start-up on a data directory with room files `files`, leftover
\* tmp files `tmps` and the index file idxFile; the rebuilt index is written
\* only when it has an entry
StartUp(files, tmps, readable, idxFile) ==
  \E loaded \in {loadIndex(readable, idxFile)} :
  \E started \in {StartIndex(readRoomsDir(files, tmps), loaded)} :
  \E written \in {DOMAIN loaded = {} /\ DOMAIN started # {} /\ diskWritable} :
     /\ cache' = EmptyMap
     /\ cacheOrder' = <<>>
     /\ index' = started
     /\ diskIndex' = IF written THEN started ELSE idxFile
     /\ indexReadable' = (written \/ readable)
     /\ quarantineSet' = diskQuarantine
     /\ dirtyRoomIds' = {}
     /\ clients' = {}
     /\ wsRoomId' = [c \in Conns |-> ""]
     /\ RATE_BUCKETS' = EmptyMap
     /\ lastBoot' = [indexLost |-> ~readable, files |-> DOMAIN files, tmps |-> DOMAIN tmps]
     /\ lastBackupAt' = 0
     /\ UNCHANGED <<now, diskQuarantine, histVars, rateLog, backups, backupLog, diskWritable>>

\* the process ends and is started again on the same data directory
Restart ==
  /\ StartUp(disk, tmpFiles, indexReadable, diskIndex)
  /\ UNCHANGED <<disk, tmpFiles>>

\* what is on disk when the process stops inside the saveRoom(id) that would
\* take the disk from that of S to that of T: in the write of the room file,
\* or, the room file renamed, in the write of the index file
DiesInSave(S, T, id, site, stop) ==
  IF site = "room"
  THEN LET W == atomicWriteFile(FileAt(S.disk, id), T.disk[id], stop)
       IN [disk |-> PutFile(S.disk, id, W.target), diskIndex |-> S.diskIndex,
           readable |-> S.readable, tmp |-> W.tmp, fp |-> roomFile(id)]
  ELSE LET W == atomicWriteFile(IF S.readable THEN S.diskIndex ELSE NoFile, T.diskIndex, stop)
       IN [disk |-> T.disk,
           diskIndex |-> IF W.target = NoFile THEN S.diskIndex ELSE W.target,
           readable |-> W.target # NoFile /\ Parses(W.target),
           tmp |-> W.tmp, fp |-> INDEX_FILE]

\* the process stops with D on disk and is started again
Dies(D) ==
  \E E \in {D} :
    \E tmps \in {IF E.tmp = NoFile THEN tmpFiles ELSE Put(tmpFiles, tmpName(E.fp, now), E.tmp)} :
      /\ disk' = E.disk
      /\ tmpFiles' = tmps
      /\ StartUp(E.disk, tmps, E.readable, E.diskIndex)

\* the process stops inside the saveRoom of a committing submit_frame
SubmitFrameDies(c, rawId, idx, tok, dataUrl, site, stop) ==
  /\ c \in clients
  /\ \E R \in {submit_frame(c, rawId, idx, tok, dataUrl)} :
       \E p \in Sent(R.out, "submitted") : Dies(DiesInSave(Store, R.S, p[1], site, stop))

\* the process stops inside create_public_and_submit: in the saveRoom of
\* makeRoom (inMakeRoom), or in the saveRoom that follows the commit of frame 0
CreatePublicAndSubmitDies(c, dataUrl, newId, inMakeRoom, site, stop) ==
  /\ c \in clients
  /\ validatePngDataUrl(dataUrl)
  /\ \E S1 \in {makeRoom(Store, newId, now)} :
     \E R \in {create_public_and_submit(c, dataUrl, newId)} :
        IF inMakeRoom THEN Dies(DiesInSave(Store, S1, newId, site, stop))
        ELSE Dies(DiesInSave(S1, R.S, newId, site, stop))

\* rooms_index.json is deleted, or overwritten with something that does not parse
LoseIndexFile ==
  /\ indexReadable
  /\ indexReadable' = FALSE
  /\ diskIndex' = EmptyMap
  /\ UNCHANGED <<now, cache, cacheOrder, disk, index, dirtyRoomIds, quarantineSet,
                 diskQuarantine, clients, wsRoomId, histVars, sideVars>>

\* The requests of one client.  Replies and broadcasts are not state: they are
\* the .out of the handler results above.
MainConns == {"c1"}
MainDataUrls == {"data:image/a", "javascript:x"}
MainQuarantineIds == {"R1", "bad!"}
\* a malformed roomId is answered the same by every verb; resync and join_by_id try it
MainRawIds == {"R1", " r2", ""}

Next ==
  \/ Tick
  \/ EvictCache
  \/ \E c \in MainConns : Connect(c)
  \/ \E c \in MainConns : Close(c)
  \/ \E c \in MainConns : Hello(c)
  \/ \E c \in MainConns : UnknownVerb(c)
  \/ \E c \in MainConns, rawId \in RawRoomIds : Resync(c, rawId)
  \/ \E c \in MainConns, d \in MainDataUrls, newId \in RoomIds : CreatePublicAndSubmit(c, d, newId)
  \/ \E c \in MainConns, rid \in RoomIds : JoinRandom(c, rid)
  \/ \E c \in MainConns, rawId \in RawRoomIds : JoinById(c, rawId)
  \/ \E c \in MainConns, rawId \in MainRawIds, view \in BOOLEAN, tok \in TokArgs :
        JoinRoom(c, rawId, view, tok)
  \/ \E c \in MainConns, rawId \in MainRawIds, idx \in IdxArgs : GetFrame(c, rawId, idx)
  \/ \E c \in MainConns, rawId \in MainRawIds, idx \in Frames, tok \in TokArgs, d \in ValidDataUrls \cap MainDataUrls :
        SubmitFrame(c, rawId, idx, tok, d)
  \/ \E rawId \in MainQuarantineIds, mode \in {"on", "off", "toggle"} : AdminQuarantine(rawId, mode)

Spec == Init /\ [][Next]_vars

\* Two clients on one room id: who is attached, who holds a token, who is
\* still connected.  No admin request and no eviction.
ConnRoomIds == {"R1"}
ConnRawIds == {"R1", ""}

NextConn ==
  \/ Tick
  \/ \E c \in Conns : Connect(c)
  \/ \E c \in Conns : Close(c)
  \/ \E c \in Conns, rawId \in ConnRawIds : Resync(c, rawId)
  \/ \E c \in Conns, newId \in ConnRoomIds : CreatePublicAndSubmit(c, "data:image/a", newId)
  \/ \E c \in Conns, rid \in ConnRoomIds : JoinRandom(c, rid)
  \/ \E c \in Conns, rawId \in ConnRawIds : JoinById(c, rawId)
  \/ \E c \in Conns, rawId \in ConnRawIds, idx \in Frames, tok \in TokArgs :
        SubmitFrame(c, rawId, idx, tok, "data:image/b")

SpecConn == Init /\ [][NextConn]_vars

\* join_by_id, in a run that mints up to cap tokens
JoinByIdWithin(c, rawId, cap) ==
  /\ c \in clients
  /\ LET R == join_by_id(c, rawId)
     IN /\ Len(issued) + Len(R.mint) <= cap
        /\ Apply(c, R)

\* One client fills a room, frame after frame, with the clock standing still;
\* create_public_and_submit may draw the id again.
NextRefill ==
  \/ \E c \in MainConns : Connect(c)
  \/ \E c \in MainConns, newId \in ConnRoomIds : CreatePublicAndSubmit(c, "data:image/a", newId)
  \/ \E c \in MainConns, rawId \in ConnRoomIds : JoinByIdWithin(c, rawId, MaxTokRefill)
  \/ \E c \in MainConns, rawId \in ConnRawIds, idx \in Frames, tok \in 0..MaxTokRefill,
           d \in ValidDataUrls : SubmitFrame(c, rawId, idx, tok, d)

SpecRefill == Init /\ [][NextRefill]_vars

\* ----------------------------------------------------- rate limiting ----
\* RATE_DEFAULT and RATE_BY_OP with the windows in clock ticks (10 s = 1,
\* 60 s = 2) and the maxima scaled down, their order kept
RATE_DEFAULT == [windowMs |-> 1, max |-> 2]

RATE_BY_OP ==
  [op \in {"hello", "get_frame", "join_room", "resync", "join_random", "join_by_id",
           "create_public_and_submit", "submit_frame"} |->
     CASE op \in {"hello", "get_frame"} -> [windowMs |-> 1, max |-> 3]
       [] op \in {"join_room", "resync", "join_random", "join_by_id"} -> [windowMs |-> 1, max |-> 2]
       [] OTHER -> [windowMs |-> 2, max |-> 1]]

\* RATE_BY_OP[op] || RATE_DEFAULT
RateCfg(op) == IF op \in DOMAIN RATE_BY_OP THEN RATE_BY_OP[op] ELSE RATE_DEFAULT

\* ws._socket.remoteAddress
remoteAddress(c) == IF c = "c1" THEN "10.0.0.1" ELSE "10.0.0.2"

Max(a, b) == IF a >= b THEN a ELSE b

\* fault: a bucket, once made, is never started again
checkRateLimit_noReset(B, ip, op, t) ==
  LET cfg == RateCfg(op)
      key == <<ip, op>>
      e0 == IF key \notin DOMAIN B
            THEN [count |-> 0, resetAt |-> t + cfg.windowMs] ELSE B[key]
      e == [e0 EXCEPT !.count = e0.count + 1]
  IN [buckets |-> Put(B, key, e),
      ok |-> ~(e.count > cfg.max),
      retryAfterMs |-> IF e.count > cfg.max THEN Max(0, e.resetAt - t) ELSE 0]

\* checkRateLimit(ip, op) at time t, with the bucket map B
checkRateLimit(B, ip, op, t) ==
  LET cfg == RateCfg(op)
      key == <<ip, op>>
      e0 == IF key \notin DOMAIN B \/ B[key].resetAt <= t
            THEN [count |-> 0, resetAt |-> t + cfg.windowMs] ELSE B[key]
      e == [e0 EXCEPT !.count = e0.count + 1]
  IN [buckets |-> Put(B, key, e),
      ok |-> ~(e.count > cfg.max),
      retryAfterMs |-> IF e.count > cfg.max THEN Max(0, e.resetAt - t) ELSE 0]

RateLimitEnv(to, retryAfterMs) ==
  [Env(to, "error") EXCEPT !.code = "RATE_LIMIT", !.message = "too fast, wait a little",
                           !.retryAfterMs = retryAfterMs]

\* longest message history and latest clock reading of a rate-limit run
MaxRateLog == 5
MaxRateTime == 3

\* ws.on("message"): the rate-limit preamble, then the handler of verb op,
\* whose run would leave R
Message(c, op, R) ==
  /\ c \in clients
  /\ Len(rateLog) < MaxRateLog
  /\ UNCHANGED <<lastBoot, tmpFiles, backupVars, diskWritable>>
  /\ \E rl \in {checkRateLimit(RATE_BUCKETS, remoteAddress(c), op, now)} :
     \E Q \in {IF rl.ok THEN R
                ELSE Result(Store, wsRoomId[c], <<RateLimitEnv(c, rl.retryAfterMs)>>)} :
        /\ RATE_BUCKETS' = rl.buckets
        /\ rateLog' = Append(rateLog, [ip |-> remoteAddress(c), op |-> op, at |-> now,
                                       dispatched |-> rl.ok, out |-> Q.out])
        /\ Handled(c, Q)

\* the 30 s timer that drops the buckets whose window is over
RateCleanup ==
  /\ RATE_BUCKETS' = [k \in {x \in DOMAIN RATE_BUCKETS : ~(RATE_BUCKETS[x].resetAt <= now)} |->
                        RATE_BUCKETS[k]]
  /\ UNCHANGED <<now, storeVars, quarantineSet, diskQuarantine, clients, wsRoomId, histVars,
                 rateLog, lastBoot, tmpFiles, backupVars, diskWritable>>

TickWithin(cap) ==
  /\ now < cap
  /\ now' = now + 1
  /\ UNCHANGED <<storeVars, quarantineSet, diskQuarantine, clients, wsRoomId, histVars, sideVars>>

\* One address sends three verbs, one of them not in RATE_BY_OP, while the
\* clock runs over several windows.
NextRate ==
  \/ TickWithin(MaxRateTime)
  \/ RateCleanup
  \/ \E c \in MainConns : Connect(c)
  \/ \E c \in MainConns : Close(c)
  \/ \E c \in MainConns : Message(c, "hello", Result(Store, wsRoomId[c], <<Env(c, "welcome")>>))
  \/ \E c \in MainConns : Message(c, "nope", Reject(c, ERR_UNKNOWN_TYPE))
  \/ \E c \in MainConns, newId \in ConnRoomIds :
        Message(c, "create_public_and_submit", create_public_and_submit(c, "data:image/a", newId))

SpecRate == Init /\ [][NextRate]_vars

\* -------------------------------------------------------- start-up ----
\* One client creates and fills rooms; the index file may be lost and the
\* process started again, any number of times.
NextBoot ==
  \/ Restart
  \/ LoseIndexFile
  \/ \E c \in MainConns : Connect(c)
  \/ \E c \in MainConns, newId \in RoomIds : CreatePublicAndSubmit(c, "data:image/a", newId)
  \/ \E c \in MainConns, rawId \in ConnRoomIds : JoinByIdWithin(c, rawId, MaxTok)
  \/ \E c \in MainConns, rawId \in ConnRawIds, idx \in Frames, tok \in TokArgs :
        SubmitFrame(c, rawId, idx, tok, "data:image/b")

SpecBoot == Init /\ [][NextBoot]_vars

\* Crashes: the process may stop inside any save of create_public_and_submit
\* and submit_frame, and is started again.
\* tokens minted in a run with crashes
MaxTokCrash == 1
WriteSites == {"room", "index"}
WriteStops == {"writing", "written"}

NextCrash ==
  \/ Restart
  \/ LoseIndexFile
  \/ \E c \in MainConns : Connect(c)
  \/ \E c \in MainConns, newId \in ConnRoomIds : CreatePublicAndSubmit(c, "data:image/a", newId)
  \/ \E c \in MainConns, rawId \in ConnRoomIds : JoinByIdWithin(c, rawId, MaxTokCrash)
  \/ \E c \in MainConns, rawId \in ConnRoomIds, idx \in Frames, tok \in 1..MaxTokCrash :
        SubmitFrame(c, rawId, idx, tok, "data:image/b")
  \/ \E c \in MainConns, rawId \in ConnRoomIds, idx \in Frames, tok \in 1..MaxTokCrash,
           site \in WriteSites, stop \in WriteStops :
        SubmitFrameDies(c, rawId, idx, tok, "data:image/b", site, stop)
  \/ \E c \in MainConns, newId \in ConnRoomIds, inMakeRoom \in BOOLEAN,
           site \in WriteSites, stop \in WriteStops :
        CreatePublicAndSubmitDies(c, "data:image/a", newId, inMakeRoom, site, stop)

SpecCrash == Init /\ [][NextCrash]_vars

\* ---------------------------------------------------------- backups ----
\* BACKUP_KEEP and BACKUP_INTERVAL_MS, scaled to the clock of a backup run
BACKUP_KEEP == 2
BACKUP_INTERVAL_MS == 4
MaxBackupTime == 13

\* new Date(t).toISOString() with ":" and "." replaced: fixed-width decimal
\* fields, most significant first
stamp(t) == <<t \div 10, t % 10>>

\* the order of Array.prototype.sort() on strings, for names of one length
SortsBefore(a, b) ==
  \E i \in 1..Len(a) : a[i] < b[i] /\ \A j \in 1..(i - 1) : a[j] = b[j]

\* fault: the newest directories are removed
pruneBackups_newest(B) ==
  LET over == Cardinality(DOMAIN B) - BACKUP_KEEP
      gone == {d \in DOMAIN B : Cardinality({e \in DOMAIN B : SortsBefore(d, e)}) < over}
  IN [d \in DOMAIN B \ gone |-> B[d]]

\* pruneBackups(): the names sorted, the first `over` removed
pruneBackups(B) ==
  LET over == Cardinality(DOMAIN B) - BACKUP_KEEP
      gone == {d \in DOMAIN B : Cardinality({e \in DOMAIN B : SortsBefore(e, d)}) < over}
  IN [d \in DOMAIN B \ gone |-> B[d]]

\* doBackup(): nothing within BACKUP_INTERVAL_MS of the last backup, nothing
\* when no room changed; else a directory named by the time, then the prune
DoBackup ==
  /\ diskWritable
  /\ ~((now - lastBackupAt) < BACKUP_INTERVAL_MS)
  /\ ~(dirtyRoomIds = {})
  /\ backups' = pruneBackups(Put(backups, stamp(now),
                                 [ts |-> now, rooms |-> dirtyRoomIds \cap DOMAIN disk,
                                  manifest |-> dirtyRoomIds,
                                  files |-> [r \in dirtyRoomIds \cap DOMAIN disk |-> disk[r]]]))
  /\ dirtyRoomIds' = {}
  /\ lastBackupAt' = now
  /\ backupLog' = Append(backupLog, now)
  /\ UNCHANGED <<now, cache, cacheOrder, disk, index, diskIndex, indexReadable, quarantineSet,
                 diskQuarantine, clients, wsRoomId, histVars, RATE_BUCKETS, rateLog, lastBoot,
                 tmpFiles, diskWritable>>

\* One client keeps creating rooms while the backup timer fires.
NextBackup ==
  \/ TickWithin(MaxBackupTime)
  \/ DoBackup
  \/ \E c \in MainConns : Connect(c)
  \/ \E c \in MainConns, newId \in RoomIds : CreatePublicAndSubmit(c, "data:image/a", newId)

SpecBackup == Init /\ [][NextBackup]_vars

\* The same, and the process may end and be started again between backups.
MaxBackupBootTime == 5
\* backups taken in a run with restarts
MaxBackupsBoot == 2

DoBackupWithin(n) ==
  /\ Len(backupLog) < n
  /\ DoBackup

NextBackupBoot ==
  \/ TickWithin(MaxBackupBootTime)
  \/ DoBackupWithin(MaxBackupsBoot)
  \/ \E c \in MainConns : Connect(c)
  \/ \E c \in MainConns, newId \in RoomIds : CreatePublicAndSubmit(c, "data:image/a", newId)
  \/ Restart

SpecBackupBoot == Init /\ [][NextBackupBoot]_vars

\* ------------------------------------------------------- eviction ----
\* The eviction timer with ROOM_CACHE_IDLE_MS = 2: one client creates and
\* reads two rooms at different times, so that cached rooms differ in
\* lastAccess when the timer fires.
MaxEvictTime == 3
EvictIdleMs == 2

EvictCacheWith(idleMs, max) ==
  /\ \E S1 \in {evictCacheWith(Store, now, idleMs, max)} :
        /\ cache' = S1.cache
        /\ cacheOrder' = S1.order
  /\ UNCHANGED <<now, disk, index, diskIndex, indexReadable, dirtyRoomIds, quarantineSet, diskQuarantine,
                 clients, wsRoomId, histVars, sideVars>>

NextEvict ==
  \/ TickWithin(MaxEvictTime)
  \/ EvictCacheWith(EvictIdleMs, ROOM_CACHE_MAX)
  \/ \E c \in MainConns : Connect(c)
  \/ \E c \in MainConns, newId \in RoomIds : CreatePublicAndSubmit(c, "data:image/a", newId)
  \/ \E c \in MainConns, rawId \in RoomIds : GetFrame(c, rawId, 0)

SpecEvict == Init /\ [][NextEvict]_vars

\* ------------------------------------------------------------- http ----
\* isLocalAddress(addr)
isLocalAddress(addr) == addr \in {"127.0.0.1", "::1", "::ffff:127.0.0.1"}

\* isAdminAuthorized(req, urlObj), with ADMIN_KEY the configured key ("" = none)
isAdminAuthorized(ADMIN_KEY, req) ==
  IF ADMIN_KEY # ""
  THEN (req.key # "" /\ req.key = ADMIN_KEY) \/ (req.headerKey # "" /\ req.headerKey = ADMIN_KEY)
  ELSE isLocalAddress(req.remoteAddress)

\* the http request handler on the admin paths, /health and any other path:
\* the response and the quarantine set it leaves
httpGet(Q, ADMIN_KEY, req) ==
  LET roomId == normalizeRoomId(req.roomId)
      Reply(status, body, Q1) == [status |-> status, body |-> body, quarantineSet |-> Q1]
  IN CASE req.pathname = "/admin/status" ->
            IF ~isAdminAuthorized(ADMIN_KEY, req) THEN Reply(404, "not found", Q)
            ELSE Reply(200, "status json", Q)
       [] req.pathname = "/admin/quarantine" ->
            IF ~isAdminAuthorized(ADMIN_KEY, req) THEN Reply(404, "not found", Q)
            ELSE IF roomId = "" THEN Reply(400, "INVALID_ROOM_ID", Q)
            ELSE Reply(200, "quarantine json", adminQuarantine(Q, roomId, req.mode))
       [] req.pathname = "/health" -> Reply(200, "health json", Q)
       [] OTHER -> Reply(200, "anim5s ok", Q)

\* requests as they arrive: any path, key, origin and query
HttpRequests ==
  [pathname : {"/admin/status", "/admin/quarantine", "/health", "/nope"},
   key : {"", "k1", "k2"}, headerKey : {"", "k1"},
   remoteAddress : {"127.0.0.1", "10.0.0.1"},
   roomId : MainQuarantineIds, mode : {"on", "off", "toggle"}]

AdminKeys == {"", "k1"}

\* ----------------------------------------------------- write faults ----
\* the data directory stops taking writes (disk full, read-only remount), or
\* takes them again
DiskFault ==
  /\ diskWritable' = ~diskWritable
  /\ UNCHANGED <<now, storeVars, quarantineSet, diskQuarantine, clients, wsRoomId, histVars,
                 RATE_BUCKETS, rateLog, lastBoot, tmpFiles, backupVars>>

\* One client on one room while writes may fail, the cache may be emptied
\* and the process restarted.
NextFault ==
  \/ DiskFault
  \/ Tick
  \/ EvictCache
  \/ Restart
  \/ \E c \in MainConns : Connect(c)
  \/ \E c \in MainConns, newId \in ConnRoomIds : CreatePublicAndSubmit(c, "data:image/a", newId)
  \/ \E c \in MainConns, rawId \in ConnRoomIds : JoinById(c, rawId)
  \/ \E c \in MainConns, rawId \in ConnRoomIds, idx \in Frames, tok \in Toks :
        SubmitFrame(c, rawId, idx, tok, "data:image/b")

SpecFault == Init /\ [][NextFault]_vars

\* ------------------------------------------------- foreign room files ----
\* The server runs on a data directory it did not fill itself: rooms/ holds a
\* file copied back from backups/ or written by an earlier version.  Tokens of
\* such a file are not among those this process hands out.
FileToks == {11, 12}
FileFrames == {1, 2}
FileExpiries == {1, 2}

FileResvs ==
  {<<>>}
  \cup {<<Resv(11, f, ex)>> : f \in FileFrames, ex \in FileExpiries}
  \cup {<<Resv(11, f, ex), Resv(12, g, ey)>> :
          f \in FileFrames, ex \in FileExpiries, g \in FileFrames, ey \in FileExpiries}

\* room files with frame 0 committed, as JSON.stringify(serializeRoom(room)) lays them out
RoomFiles ==
  {[frames |-> [i \in Frames |-> IF i = 0 THEN "data:image/a" ELSE NULL],
    committed |-> [i \in Frames |-> i = 0],
    phase |-> "DRAWING",
    reservations |-> rs] : rs \in FileResvs}

\* a room file is put into rooms/ before the server has touched the room
PlaceRoomFile(id, obj) ==
  /\ id \notin DOMAIN disk
  /\ id \notin DOMAIN cache
  /\ disk' = Put(disk, id, obj)
  /\ UNCHANGED <<now, cache, cacheOrder, index, diskIndex, indexReadable, dirtyRoomIds,
                 quarantineSet, diskQuarantine, clients, wsRoomId, histVars, sideVars>>

NextLoad ==
  \/ Tick \/ EvictCache
  \/ \E obj \in RoomFiles : PlaceRoomFile("R1", obj)
  \/ \E c \in MainConns : Connect(c)
  \/ \E c \in MainConns, rawId \in ConnRoomIds : JoinByIdWithin(c, rawId, MaxTokCrash)
  \/ \E c \in MainConns, rawId \in ConnRoomIds, idx \in Frames, tok \in FileToks \cup 1..MaxTokCrash :
        SubmitFrame(c, rawId, idx, tok, "data:image/b")

SpecLoad == Init /\ [][NextLoad]_vars

\* ---------------------------------------------------------- two rooms ----
\* Two clients and two rooms: who is attached where when a frame is committed.
\* The clock stands still, so no reservation expires.
NextRooms ==
  \/ \E c \in Conns : Connect(c)
  \/ \E c \in Conns, newId \in RoomIds : CreatePublicAndSubmit(c, "data:image/a", newId)
  \/ \E c \in Conns, rawId \in RoomIds : JoinById(c, rawId)
  \/ \E c \in Conns, rawId \in RoomIds, idx \in Frames, tok \in Toks :
        SubmitFrame(c, rawId, idx, tok, "data:image/b")

SpecRooms == Init /\ [][NextRooms]_vars

\* ------------------------------------------------------ inbound frames ----
\* The text of a WebSocket frame, before it is a message.  JSON values are
\* records [kind, t]; t is the member "t" of an object, NoMember when absent.
NoMember == "undefined"
JsonValue(kind, t) == [kind |-> kind, t |-> t]

InboundTexts ==
  {"{oops", "null", "7", "true", "\"hi\"", "[]", "{}", "{\"t\":\"hello\"}", "{\"t\":\"nope\"}"}

\* JSON.parse(String(buf)): ok FALSE when it throws SyntaxError
JSON_parse(text) ==
  CASE text = "null" -> [ok |-> TRUE, value |-> JsonValue("null", NoMember)]
    [] text = "7" -> [ok |-> TRUE, value |-> JsonValue("number", NoMember)]
    [] text = "true" -> [ok |-> TRUE, value |-> JsonValue("boolean", NoMember)]
    [] text = "\"hi\"" -> [ok |-> TRUE, value |-> JsonValue("string", NoMember)]
    [] text = "[]" -> [ok |-> TRUE, value |-> JsonValue("array", NoMember)]
    [] text = "{}" -> [ok |-> TRUE, value |-> JsonValue("object", NoMember)]
    [] text = "{\"t\":\"hello\"}" -> [ok |-> TRUE, value |-> JsonValue("object", "hello")]
    [] text = "{\"t\":\"nope\"}" -> [ok |-> TRUE, value |-> JsonValue("object", "nope")]
    [] OTHER -> [ok |-> FALSE, value |-> JsonValue("none", NoMember)]

\* m.t: a property read on null throws TypeError; a number, boolean, string
\* or array has no member t
MemberT(m) ==
  IF m.kind = "null" THEN [throws |-> TRUE, value |-> NoMember]
  ELSE [throws |-> FALSE, value |-> m.t]

\* the first statements of ws.on("message"): "dropped" when JSON.parse throws
\* (caught), "throws" when an exception leaves the handler (the try has a
\* finally and no catch), else the verb String(m.t || "") to dispatch on
preamble(text) ==
  LET p == JSON_parse(text)
      mt == MemberT(p.value)
  IN IF ~p.ok THEN [status |-> "dropped", t |-> ""]
     ELSE IF mt.throws THEN [status |-> "throws", t |-> ""]
     ELSE [status |-> "dispatch", t |-> IF mt.value = NoMember THEN "" ELSE mt.value]

\* ws.on("message") for a frame with text `text`.  An exception that leaves
\* the listener is uncaught: the process exits and is started again.
Inbound(c, text) ==
  /\ c \in clients
  /\ \E p \in {preamble(text)} :
       CASE p.status = "dropped" -> UNCHANGED vars
         [] p.status = "throws" -> Restart
         [] p.t = "hello" -> Apply(c, Result(Store, wsRoomId[c], <<Env(c, "welcome")>>))
         [] OTHER -> Apply(c, Reject(c, ERR_UNKNOWN_TYPE))

NextParse ==
  \/ Tick
  \/ \E c \in MainConns : Connect(c)
  \/ \E c \in MainConns, text \in InboundTexts : Inbound(c, text)
  \/ \E c \in MainConns, newId \in ConnRoomIds : CreatePublicAndSubmit(c, "data:image/a", newId)
  \/ \E c \in MainConns, rawId \in ConnRoomIds : JoinById(c, rawId)
  \/ \E c \in MainConns, rawId \in ConnRoomIds, idx \in Frames, tok \in Toks :
        SubmitFrame(c, rawId, idx, tok, "data:image/b")

SpecParse == Init /\ [][NextParse]_vars

\* ------------------------------------------------------------- views ----
\* frame i of room r is committed in every copy of r the server holds
CommittedEverywhere(r, i) ==
  /\ r \in DOMAIN disk
  /\ disk[r].committed[i]
  /\ r \in DOMAIN cache => cache[r].room.committed[i]

\* the reservations of room r that have not expired, cached and persisted
LiveResv(reservations) ==
  {i \in 1..Len(reservations) : reservations[i].expiresAt > now}

\* ------------------------------------------------------------ claims ----
\* C1: for every room id and frame index i, at most one submit_frame for
\* (room, i) is ever answered with `submitted`.
C1_AtMostOneSubmitted ==
  \A p \in DOMAIN submittedCnt : submittedCnt[p] <= 1

\* the rooms the server holds, cached or persisted, as reservation lists
HeldReservations ==
  {cache[r].room.reservations : r \in DOMAIN cache} \cup {disk[r].reservations : r \in DOMAIN disk}

\* token k was handed out for frame f of room r, has not expired, and no
\* submit_frame for (r, f) has been answered `submitted` (so k was not consumed)
Outstanding(k, r, f) ==
  /\ issued[k].roomId = r
  /\ issued[k].frameIndex = f
  /\ issued[k].expiresAt > now
  /\ submittedCnt[<<r, f>>] = 0

\* a join that answers room_joined assigns a frame no outstanding token holds
FreshAssignment(R) ==
  R.mint # <<>> =>
    ~\E k \in 1..Len(issued) : Outstanding(k, R.mint[1].roomId, R.mint[1].frameIndex)

\* C2: in every room, cached or persisted, no two reservations with
\* expiresAt > now refer to the same frameIndex; and no join_random or
\* join_by_id returns an assignedFrame for which an earlier reservation of the
\* same room is still unexpired and unconsumed.
C2_NoSharedLiveFrame ==
  /\ \A rs \in HeldReservations : \A i, j \in LiveResv(rs) :
        rs[i].frameIndex = rs[j].frameIndex => i = j
  /\ \A c \in clients :
        /\ \A rawId \in RawRoomIds : FreshAssignment(join_by_id(c, rawId))
        /\ \A rid \in OpenRoomIds : FreshAssignment(join_random(c, rid))

\* the first half of C2 alone: the reservation lists themselves never hold two
\* live entries for one frame
NoTwoLiveEntries ==
  \A rs \in HeldReservations : \A i, j \in LiveResv(rs) :
    rs[i].frameIndex = rs[j].frameIndex => i = j

\* C3: once frame_committed has been sent for frame i of room R, committed[i]
\* of R is true in every later state of R, in the cache and in the room file.
C3_AnnouncedStaysCommitted ==
  \A p \in announced : CommittedEverywhere(p[1], p[2])

\* the rooms the server holds, cached or persisted, as [phase, committed, frames]
HeldRooms ==
  {cache[r].room : r \in DOMAIN cache} \cup {disk[r] : r \in DOMAIN disk}

\* C4: after any handler has returned, every room in the cache and every room
\* file has phase PLAYBACK exactly when all its committed flags are true, and
\* phase DRAWING otherwise.
C4_PhaseIffAllCommitted ==
  \A room \in HeldRooms :
    /\ room.phase \in {"DRAWING", "PLAYBACK"}
    /\ room.phase = "PLAYBACK" <=> \A i \in Frames : room.committed[i]

\* a completed room is held in the cache and on disk while another is in DRAWING
C4_Witness ==
  /\ \E r \in DOMAIN cache : cache[r].room.phase = "PLAYBACK"
  /\ \E r \in DOMAIN disk : disk[r].phase = "PLAYBACK"
  /\ \E r \in DOMAIN disk : disk[r].phase = "DRAWING"

\* C5: once a room has reached PLAYBACK, no later step changes any of its
\* frames, clears any of its committed flags or takes it out of PLAYBACK.
C5_PlaybackIsFinal ==
  [][\A r \in DOMAIN disk :
       disk[r].phase = "PLAYBACK" =>
         /\ r \in DOMAIN disk'
         /\ disk'[r].phase = "PLAYBACK"
         /\ disk'[r].frames = disk[r].frames
         /\ disk'[r].committed = disk[r].committed
         /\ r \in DOMAIN cache' =>
              /\ cache'[r].room.phase = "PLAYBACK"
              /\ cache'[r].room.frames = disk[r].frames
              /\ cache'[r].room.committed = disk[r].committed]_vars


\* C6: every room file satisfies, for every i: committed[i] is true if and
\* only if frames[i] holds a payload.
C6_CommittedIffPayload ==
  \A r \in DOMAIN disk : \A i \in Frames :
    disk[r].committed[i] <=> disk[r].frames[i] # NULL

\* a room file with payloads committed by create_public_and_submit and by
\* submit_frame, and a frame still empty
C6_Witness ==
  \E r \in DOMAIN disk :
    /\ disk[r].committed[0] /\ disk[r].committed[1] /\ ~disk[r].committed[2]
    /\ submittedCnt[<<r, 1>>] = 1


\* the tokens whose reservation has expired
ExpiredTokens == {k \in 1..Len(issued) : issued[k].expiresAt <= now}

\* the raw roomId arguments by which connection c addresses room r
Addressing(c, r) ==
  {rawId \in RawRoomIds : normalizeRoomId(OrElse(rawId, wsRoomId[c])) = r}

\* the room object getRoom(r) hands to a handler
RoomOf(r) == IF r \in DOMAIN cache THEN cache[r].room ELSE deserializeRoom(disk[r], now)

\* the payloads and flags of every room of store S: in its file, and in the
\* object a handler works on (the cached one, else the one read from the file)
Content(S) ==
  [r \in DOMAIN S.disk |->
     [file |-> <<S.disk[r].frames, S.disk[r].committed>>,
      held |-> IF r \in DOMAIN S.cache
               THEN <<S.cache[r].room.frames, S.cache[r].room.committed>>
               ELSE <<S.disk[r].frames, S.disk[r].committed>>]]

\* frame f of room r is uncommitted and no unexpired reservation holds it
Unheld(r, f) ==
  /\ ~RoomOf(r).committed[f]
  /\ \A i \in LiveResv(RoomOf(r).reservations) : RoomOf(r).reservations[i].frameIndex # f

\* a join that answers room_joined with frame f or a smaller free frame
AssignsUpTo(R, f) == R.mint # <<>> /\ R.mint[1].frameIndex \in 0..f

Naming(r) == {rawId \in RawRoomIds : normalizeRoomId(rawId) = r}

\* the results of join_room, resync, get_frame and submit_frame for connection
\* c and raw roomId rawId, over every other argument
Addressed(c, rawId) ==
  {resync(c, rawId)}
    \cup {join_room(c, rawId, view, tok) : view \in BOOLEAN, tok \in TokArgs}
    \cup {get_frame(c, rawId, idx) : idx \in IdxArgs}
    \cup {submit_frame(c, rawId, idx, tok, d) : idx \in IdxArgs, tok \in TokArgs, d \in DataUrls}

\* room r has a file or a cache entry
Exists(r) == r \in DOMAIN disk \/ r \in DOMAIN cache

\* C8: while roomId r is in the quarantine set, join_by_id, join_room, resync,
\* get_frame and submit_frame addressed to r, by data.roomId or through the
\* connection's attachment, are answered with the room-not-found error and
\* change nothing, and join_random does not select r; when r is not in the set
\* and has a room, resync, a viewing join_room and get_frame of a committed
\* frame are served.
C8_QuarantineHides ==
  \A r \in RoomIds : \A c \in clients :
    /\ r \in quarantineSet =>
         /\ \A R \in UNION {Addressed(c, rawId) : rawId \in Addressing(c, r)}
                      \cup {join_by_id(c, rawId) : rawId \in Naming(r)} :
               /\ R.out = <<ErrorEnv(c, ERR_NOT_FOUND)>>
               /\ R.S = Store
               /\ R.attach = wsRoomId[c]
               /\ R.mint = <<>>
         /\ r \notin OpenRoomIds
    /\ (r \notin quarantineSet /\ Exists(r)) =>
         \A rawId \in Addressing(c, r) :
           /\ resync(c, rawId).out[1].t = "room_state"
           /\ join_room(c, rawId, TRUE, NoTok).out[1].t = "room_state"
           /\ \A idx \in Frames : RoomOf(r).committed[idx] =>
                 get_frame(c, rawId, idx).out[1].t = "frame_data"

\* R1 is quarantined while its file exists, a reservation in it is unexpired
\* and the connection is attached to it
C8_Witness ==
  /\ "R1" \in quarantineSet
  /\ "R1" \in DOMAIN disk
  /\ LiveResv(disk["R1"].reservations) # {}
  /\ "c1" \in clients
  /\ wsRoomId["c1"] = "R1"

\* C9: for each of join_by_id, join_room, resync, get_frame and submit_frame,
\* the response for a quarantined roomId is the response for a well-formed
\* roomId that has no room, with the same arguments otherwise, and both leave
\* the connection's attachment as it was.
C9_QuarantinedLooksMissing ==
  \A q \in quarantineSet : \A m \in {x \in RoomIds \ quarantineSet : ~CanGetRoom(Store, x)} :
    \A c \in clients :
      /\ join_by_id(c, q).out = join_by_id(c, m).out
      /\ join_by_id(c, q).attach = wsRoomId[c] /\ join_by_id(c, m).attach = wsRoomId[c]
      /\ resync(c, q).out = resync(c, m).out
      /\ resync(c, q).attach = wsRoomId[c] /\ resync(c, m).attach = wsRoomId[c]
      /\ \A view \in BOOLEAN, tok \in TokArgs :
            /\ join_room(c, q, view, tok).out = join_room(c, m, view, tok).out
            /\ join_room(c, q, view, tok).attach = wsRoomId[c]
            /\ join_room(c, m, view, tok).attach = wsRoomId[c]
      /\ \A idx \in IdxArgs :
            /\ get_frame(c, q, idx).out = get_frame(c, m, idx).out
            /\ get_frame(c, q, idx).attach = wsRoomId[c]
            /\ get_frame(c, m, idx).attach = wsRoomId[c]
      /\ \A idx \in IdxArgs, tok \in TokArgs, d \in DataUrls :
            /\ submit_frame(c, q, idx, tok, d).out = submit_frame(c, m, idx, tok, d).out
            /\ submit_frame(c, q, idx, tok, d).attach = wsRoomId[c]
            /\ submit_frame(c, m, idx, tok, d).attach = wsRoomId[c]

\* R1 is quarantined and has a room with a committed frame, R2 has no room,
\* and the connection is open
C9_Witness ==
  /\ "R1" \in quarantineSet
  /\ "R1" \in DOMAIN disk
  /\ disk["R1"].committed[0]
  /\ ~CanGetRoom(Store, "R2")
  /\ "c1" \in clients
  /\ wsRoomId["c1"] = ""

\* every frame of room r is committed, in the file or in the cached object
Completed(r) ==
  \/ r \in DOMAIN disk /\ \A i \in Frames : disk[r].committed[i]
  \/ r \in DOMAIN cache /\ \A i \in Frames : cache[r].room.committed[i]

\* the types of the envelopes of a result
Types(R) == {R.out[i].t : i \in 1..Len(R.out)}

\* C10: for a room all of whose frames are committed, join_random and
\* join_by_id never answer room_joined and issue no reservation, and
\* submit_frame never answers `submitted`, whatever token is supplied.
C10_CompletedNotEditable ==
  \A r \in RoomIds : Completed(r) =>
    \A c \in clients :
      /\ \A rawId \in Naming(r) :
            /\ "room_joined" \notin Types(join_by_id(c, rawId))
            /\ join_by_id(c, rawId).mint = <<>>
      /\ \A rawId \in Addressing(c, r) :
            /\ \A idx \in IdxArgs, tok \in TokArgs, d \in DataUrls :
                  /\ "submitted" \notin Types(submit_frame(c, rawId, idx, tok, d))
                  /\ Content(submit_frame(c, rawId, idx, tok, d).S) = Content(Store)
      /\ "room_joined" \notin Types(join_random(c, r))
      /\ join_random(c, r).mint = <<>>

\* a completed room that is no longer cached is asked for by a connected client
C10_Witness ==
  \E r \in RoomIds :
    /\ Completed(r)
    /\ r \notin DOMAIN cache
    /\ r \notin quarantineSet
    /\ "c1" \in clients
    /\ submittedCnt[<<r, 1>>] = 1


\* the positions in the envelopes of result R that go to connection c and
\* have type t
At(R, c, t) == {i \in 1..Len(R.out) : R.out[i].to = c /\ R.out[i].t = t}

\* the connections attached to room r
Attached(r) == {c \in clients : wsRoomId[c] = r}

\* the results of the submit_frame requests that commit a frame of room r
Commits(r) ==
  {R \in {submit_frame(c, rawId, idx, tok, d) :
             c \in clients, rawId \in RawRoomIds, idx \in Frames, tok \in Toks, d \in ValidDataUrls} :
     \E i \in 1..Len(R.out) : R.out[i].t = "submitted" /\ R.out[i].roomId = r}

\* C11: the submit_frame that commits frame i of room r sends every
\* connection attached to r one frame_committed{r, i}, ahead of any
\* start_playback{r} and any room_state it sends to that connection, and
\* start_playback ahead of the completion room_state; when the commit
\* completes the room each attached connection gets all three.
C11_CommitBeforePlayback ==
  \A r \in RoomIds : \A R \in Commits(r) : \A c \in Attached(r) :
    /\ Cardinality(At(R, c, "frame_committed")) = 1
    /\ \A i \in At(R, c, "frame_committed") :
          /\ R.out[i].roomId = r
          /\ <<r, R.out[i].frameIndex>> \in Sent(R.out, "submitted")
          /\ \A j \in At(R, c, "start_playback") \cup At(R, c, "room_state") : i < j
    /\ \A j \in At(R, c, "start_playback") : \A k \in At(R, c, "room_state") :
          /\ j < k
          /\ R.out[j].roomId = r
          /\ R.out[k].roomId = r /\ R.out[k].completed /\ R.out[k].phase = "PLAYBACK"
    /\ (\A f \in Frames : R.S.cache[r].room.committed[f]) =>
          /\ At(R, c, "start_playback") # {}
          /\ At(R, c, "room_state") # {}

\* a client holding the token of the last empty frame can complete the room
\* while both clients are attached to it
C11_Witness ==
  \E r \in RoomIds : \E R \in Commits(r) :
    /\ Attached(r) = Conns
    /\ \A f \in Frames : R.S.cache[r].room.committed[f]


\* the results of every request connection c can make about room id rawId,
\* submit_frame apart
NonSubmit(c, rawId) ==
  {join_by_id(c, rawId), resync(c, rawId)}
    \cup {join_room(c, rawId, view, tok) : view \in BOOLEAN, tok \in TokArgs}
    \cup {get_frame(c, rawId, idx) : idx \in IdxArgs}
    \cup {join_random(c, rid) : rid \in OpenRoomIds}
    \cup {create_public_and_submit(c, d, newId) : d \in DataUrls, newId \in RoomIds}

\* C12: start_playback{r} is broadcast once per room id r, by the
\* submit_frame that commits the last uncommitted frame of r, never while a
\* frame of r is uncommitted, and by no other request.
C12_PlaybackOnce ==
  /\ \A r \in RoomIds : playbackCnt[r] <= 1
  /\ \A c \in clients : \A rawId \in RawRoomIds :
        /\ \A R \in NonSubmit(c, rawId) : "start_playback" \notin Types(R)
        /\ \A idx \in IdxArgs, tok \in 0..Len(issued), d \in DataUrls :
              LET R == submit_frame(c, rawId, idx, tok, d)
              IN \A i \in 1..Len(R.out) : R.out[i].t = "start_playback" =>
                   /\ <<R.out[i].roomId, idx>> \in Sent(R.out, "submitted")
                   /\ \A f \in Frames : R.S.disk[R.out[i].roomId].committed[f]
                   /\ ~RoomOf(R.out[i].roomId).committed[idx]

\* the second conjunct and the rest of C12 without the count: who sends
\* start_playback, and when
PlaybackOnlyOnCompletion ==
  \A c \in clients : \A rawId \in RawRoomIds :
    /\ \A R \in NonSubmit(c, rawId) : "start_playback" \notin Types(R)
    /\ \A idx \in IdxArgs, tok \in 0..Len(issued), d \in DataUrls :
          LET R == submit_frame(c, rawId, idx, tok, d)
          IN \A i \in 1..Len(R.out) : R.out[i].t = "start_playback" =>
               /\ <<R.out[i].roomId, idx>> \in Sent(R.out, "submitted")
               /\ \A f \in Frames : R.S.disk[R.out[i].roomId].committed[f]
               /\ ~RoomOf(R.out[i].roomId).committed[idx]

\* the messages of one address and verb that reached the rate limiter, in order
LogOf(ip, op) == SelectSeq(rateLog, LAMBDA m : m.ip = ip /\ m.op = op)

RateKeys == {<<rateLog[i].ip, rateLog[i].op>> : i \in 1..Len(rateLog)}

\* the start of the window message i of L falls in: the first message opens a
\* window, and so does each message that arrives when the open one is over
RECURSIVE WindowStart(_, _, _)
WindowStart(L, i, windowMs) ==
  IF i = 1 THEN L[1].at
  ELSE LET p == WindowStart(L, i - 1, windowMs)
       IN IF L[i].at >= p + windowMs THEN L[i].at ELSE p

\* message i is the n-th message of its window
PlaceInWindow(L, i, windowMs) ==
  Cardinality({j \in 1..i : WindowStart(L, j, windowMs) = WindowStart(L, i, windowMs)})

\* C13: per address and verb, the first max messages of a window are
\* dispatched; every later message of that window gets one error, code
\* RATE_LIMIT with retryAfterMs > 0, and nothing else; the first message
\* after the window is over is dispatched again.
C13_RateLimitWindow ==
  \A key \in RateKeys :
    LET L == LogOf(key[1], key[2])
        cfg == RateCfg(key[2])
    IN \A i \in 1..Len(L) :
         /\ L[i].dispatched <=> PlaceInWindow(L, i, cfg.windowMs) <= cfg.max
         /\ L[i].dispatched => \A k \in 1..Len(L[i].out) : L[i].out[k].code # "RATE_LIMIT"
         /\ ~L[i].dispatched =>
              /\ Len(L[i].out) = 1
              /\ L[i].out[1].t = "error"
              /\ L[i].out[1].code = "RATE_LIMIT"
              /\ L[i].out[1].retryAfterMs > 0

\* a verb was limited after max dispatched messages and dispatched again later
C13_Witness ==
  \E key \in RateKeys :
    LET L == LogOf(key[1], key[2])
        cfg == RateCfg(key[2])
    IN \E i \in 1..Len(L), j \in 1..Len(L) :
         /\ i < j
         /\ ~L[i].dispatched
         /\ PlaceInWindow(L, i, cfg.windowMs) = cfg.max + 1
         /\ L[j].dispatched
         /\ L[j].at >= WindowStart(L, i, cfg.windowMs) + cfg.windowMs

\* index x is what a scan of the room files gives: one entry per file, with
\* the file's number of committed frames and its completion
ScanOf(x, files) ==
  /\ DOMAIN x = DOMAIN files
  /\ \A rid \in DOMAIN files :
       LET n == Cardinality({i \in Frames : files[rid].committed[i]})
       IN /\ x[rid].filledCount = n
          /\ x[rid].completed <=> (files[rid].phase = "PLAYBACK" \/ n >= FrameCount)

Latest(log, n) ==
  {log[i] : i \in {k \in 1..Len(log) : Cardinality({j \in 1..Len(log) : log[j] > log[k]}) < n}}

\* C16: at most BACKUP_KEEP backup directories exist, they are those of the
\* latest completed backups, and from the BACKUP_KEEP-th completed backup on
\* there are exactly BACKUP_KEEP of them.
C16_BackupRotation ==
  /\ Cardinality(DOMAIN backups) <= BACKUP_KEEP
  /\ {backups[d].ts : d \in DOMAIN backups} = Latest(backupLog, BACKUP_KEEP)
  /\ \A d \in DOMAIN backups : d = stamp(backups[d].ts) /\ backups[d].rooms # {}
  /\ Len(backupLog) >= BACKUP_KEEP => Cardinality(DOMAIN backups) = BACKUP_KEEP

\* BACKUP_KEEP + 1 backups ran, the last one in a later decade of the clock
\* than the first
C16_Witness ==
  /\ Len(backupLog) = BACKUP_KEEP + 1
  /\ backupLog[1] < 10
  /\ backupLog[Len(backupLog)] >= 10
  /\ stamp(backupLog[1]) \notin DOMAIN backups

\* a room under id r exists: in the cache, in the index or on disk
Known(r) == r \in DOMAIN cache \cup DOMAIN index \cup DOMAIN disk

\* C17: when id7() returns the id of a room that exists,
\* create_public_and_submit does not assign that id, and the room's file,
\* cached object and index entry are as before.
C17_CreateAvoidsExisting ==
  \A c \in clients, newId \in RoomIds :
    Known(newId) =>
      LET R == create_public_and_submit(c, "data:image/a", newId)
      IN /\ R.attach # newId
         /\ \A i \in 1..Len(R.out) : R.out[i].roomId # newId
         /\ newId \in DOMAIN disk => R.S.disk[newId] = disk[newId]
         /\ newId \in DOMAIN cache => R.S.cache[newId].room = cache[newId].room
         /\ newId \in DOMAIN index => R.S.index[newId] = index[newId]

\* C18: every room file, cache entry and index entry is of a room whose frame
\* 0 is committed, and no join hands out frame 0.
C18_FrameZeroCommitted ==
  /\ \A r \in DOMAIN disk : disk[r].committed[0]
  /\ \A r \in DOMAIN cache : cache[r].room.committed[0]
  /\ \A r \in DOMAIN index : index[r].filledCount >= 1
  /\ \A c \in clients, r \in RoomIds :
       /\ \A k \in 1..Len(join_by_id(c, r).mint) : join_by_id(c, r).mint[k].frameIndex # 0
       /\ (OpenRoomIds # {} => r \in OpenRoomIds) =>
            \A k \in 1..Len(join_random(c, r).mint) : join_random(c, r).mint[k].frameIndex # 0

\* tokens whose connection has closed, not expired, their frame not submitted
ClosedHolders ==
  {k \in 1..Len(issued) : /\ issued[k].conn \notin clients
                          /\ issued[k].expiresAt > now
                          /\ submittedCnt[<<issued[k].roomId, issued[k].frameIndex>>] = 0}

\* C19: after the connection that obtained a reservation has closed, and
\* until expiresAt, submit_frame with the token and frame succeeds from any
\* connection and no join assigns the frame.
C19_CloseKeepsReservation ==
  \A k \in ClosedHolders :
    LET r == issued[k].roomId
        f == issued[k].frameIndex
    IN \A c \in clients :
         /\ <<r, f>> \in Sent(submit_frame(c, r, f, k, "data:image/b").out, "submitted")
         /\ ~AssignsUpTo(join_by_id(c, r), FrameCount) \/ join_by_id(c, r).mint[1].frameIndex # f
         /\ ~AssignsUpTo(join_random(c, r), FrameCount) \/ join_random(c, r).mint[1].frameIndex # f

\* C20: an admin path asked for without valid authorization is answered with
\* the status and body of an undefined path, and leaves the quarantine set.
C20_UnauthorizedLooksUndefined ==
  \A ADMIN_KEY \in AdminKeys, req \in HttpRequests :
    (req.pathname \in {"/admin/status", "/admin/quarantine"} /\ ~isAdminAuthorized(ADMIN_KEY, req)) =>
      LET got == httpGet(quarantineSet, ADMIN_KEY, req)
          undefined == httpGet(quarantineSet, ADMIN_KEY, [req EXCEPT !.pathname = "/nope"])
      IN /\ got.status = undefined.status
         /\ got.body = undefined.body
         /\ got.quarantineSet = quarantineSet

\* the part of C20 that holds: an unauthorized admin request changes nothing
UnauthorizedChangesNothing ==
  \A ADMIN_KEY \in AdminKeys, req \in HttpRequests :
    ~isAdminAuthorized(ADMIN_KEY, req) =>
      httpGet(quarantineSet, ADMIN_KEY, req).quarantineSet = quarantineSet

\* C21: a submit_frame that sends frame_committed or submitted for a frame
\* leaves the room file holding that frame, committed, with the payload sent.
C21_PersistBeforeAnnounce ==
  \A c \in clients, r \in RoomIds, idx \in Frames, tok \in Toks :
    LET R == submit_frame(c, r, idx, tok, "data:image/b")
    IN \A p \in Sent(R.out, "frame_committed") \cup Sent(R.out, "submitted") :
         /\ p[1] \in DOMAIN R.S.disk
         /\ R.S.disk[p[1]].committed[p[2]]
         /\ R.S.disk[p[1]].frames[p[2]] = "data:image/b"

\* the room object a handler works on in store S
HeldIn(S, r) == IF r \in DOMAIN S.cache THEN S.cache[r].room ELSE deserializeRoom(S.disk[r], now)

\* the unexpired reservations of room r in store S
LiveIn(S, r) ==
  {HeldIn(S, r).reservations[i] : i \in LiveResv(HeldIn(S, r).reservations)}

\* C22: a submit_frame answered with an error leaves the frames and the
\* committed flags of every room as they were, in the file and in memory, and
\* keeps every unexpired reservation.
C22_RejectedSubmitChangesNothing ==
  \A c \in clients, rawId \in RawRoomIds, idx \in IdxArgs, tok \in TokArgs, d \in DataUrls :
    LET R == submit_frame(c, rawId, idx, tok, d)
    IN "error" \in Types(R) =>
         /\ Content(R.S) = Content(Store)
         /\ \A r \in DOMAIN disk : LiveIn(Store, r) \subseteq LiveIn(R.S, r)

\* a live token is refused for the wrong frame and for an invalid dataUrl
C22_Witness ==
  \E c \in clients, r \in RoomIds, tok \in Toks :
    /\ r \in DOMAIN disk
    /\ \E e \in LiveIn(Store, r) :
         /\ e.tok = tok
         /\ \E idx \in Frames : idx # e.frameIndex
              /\ "error" \in Types(submit_frame(c, r, idx, tok, "data:image/b"))
         /\ "error" \in Types(submit_frame(c, r, e.frameIndex, tok, "javascript:x"))
         /\ "submitted" \in Types(submit_frame(c, r, e.frameIndex, tok, "data:image/b"))

\* what the handler sends for each message connection c can send that parses
\* as JSON and is within its rate limit
Outs(c) ==
  {<<Env(c, "welcome")>>, Reject(c, ERR_UNKNOWN_TYPE).out}
  \cup {resync(c, rawId).out : rawId \in RawRoomIds}
  \cup {create_public_and_submit(c, d, newId).out : d \in DataUrls, newId \in RoomIds}
  \cup {join_random(c, rid).out : rid \in IF OpenRoomIds = {} THEN RoomIds ELSE OpenRoomIds}
  \cup {join_by_id(c, rawId).out : rawId \in RawRoomIds}
  \cup {join_room(c, rawId, view, tok).out :
          rawId \in RawRoomIds, view \in BOOLEAN, tok \in TokArgs}
  \cup {get_frame(c, rawId, idx).out : rawId \in RawRoomIds, idx \in IdxArgs}
  \cup {submit_frame(c, rawId, idx, tok, d).out :
          rawId \in RawRoomIds, idx \in IdxArgs, tok \in TokArgs, d \in DataUrls}

ErrorRepliesAreSingle ==
  \A c \in clients : \A out \in Outs(c) :
    (\E i \in 1..Len(out) : out[i].t = "error") => Len(out) = 1 /\ out[1].to = c

\* the tokens handed to connection c whose reservation is still in its room,
\* unexpired
Holds(c) ==
  {k \in 1..Len(issued) :
     /\ issued[k].conn = c
     /\ issued[k].roomId \in DOMAIN disk
     /\ \E e \in LiveIn(Store, issued[k].roomId) : e.tok = k}

\* C24: a connection that holds an unexpired, unconsumed reservation is not
\* answered room_joined (and so gets no second reservation) by join_random or
\* join_by_id.
C24_OneFramePerClient ==
  \A c \in clients : Holds(c) # {} =>
    /\ \A rawId \in RawRoomIds : "room_joined" \notin Types(join_by_id(c, rawId))
    /\ \A rid \in OpenRoomIds : "room_joined" \notin Types(join_random(c, rid))

\* the frames of room r a join may hand out: uncommitted, no unexpired reservation
FreeFrames(r) == {i \in Frames : Unheld(r, i)}

\* a join answered room_joined assigns the smallest free frame of its room
SmallestFree(R) ==
  R.mint # <<>> =>
    /\ FreeFrames(R.mint[1].roomId) # {}
    /\ R.mint[1].frameIndex = Min(FreeFrames(R.mint[1].roomId))
    /\ \A i \in 1..Len(R.out) : R.out[i].t = "room_joined" =>
          R.out[i].frameIndex = R.mint[1].frameIndex

\* C25: a join_random or join_by_id answered room_joined returns as
\* assignedFrame the smallest index whose frame is uncommitted and held by no
\* unexpired reservation.
C25_SmallestFreeFrame ==
  \A c \in clients :
    /\ \A rawId \in RawRoomIds :
         LET R == join_by_id(c, rawId)
         IN SmallestFree(R) /\ ("room_joined" \in Types(R) <=> R.mint # <<>>)
    /\ \A rid \in OpenRoomIds :
         LET R == join_random(c, rid)
         IN SmallestFree(R) /\ ("room_joined" \in Types(R) <=> R.mint # <<>>)

\* a join hands out a frame whose earlier reservation has expired and is still
\* listed, past a committed frame
C25_Witness ==
  \E c \in clients, r \in RoomIds :
    /\ r \in DOMAIN disk
    /\ LET R == join_by_id(c, r)
       IN /\ R.mint # <<>>
          /\ R.mint[1].frameIndex > 0
          /\ \E i \in 1..Len(RoomOf(r).reservations) :
               /\ RoomOf(r).reservations[i].frameIndex = R.mint[1].frameIndex
               /\ RoomOf(r).reservations[i].expiresAt <= now

\* room.reservations and room.reservedByFrame of a room object name the same
\* (token, frame) pairs, and no reserved frame is committed
Inverse(room) ==
  /\ \A f \in Frames : room.reservedByFrame[f] # NoTok =>
       \E i \in 1..Len(room.reservations) :
         /\ room.reservations[i].tok = room.reservedByFrame[f]
         /\ room.reservations[i].frameIndex = f
  /\ \A i \in 1..Len(room.reservations) :
       /\ room.reservations[i].frameIndex \in Frames
       /\ room.reservedByFrame[room.reservations[i].frameIndex] = room.reservations[i].tok
  /\ \A f \in Frames : room.reservedByFrame[f] # NoTok => ~room.committed[f]

Run(verb, R) == [verb |-> verb, attach |-> R.attach, out |-> R.out]

\* one entry for each message connection c can send
Runs(c) ==
  {Run("hello", Result(Store, wsRoomId[c], <<Env(c, "welcome")>>)),
   Run("unknown", Reject(c, ERR_UNKNOWN_TYPE))}
  \cup {Run("resync", resync(c, rawId)) : rawId \in RawRoomIds}
  \cup {Run("create_public_and_submit", create_public_and_submit(c, d, newId)) :
          d \in DataUrls, newId \in RoomIds}
  \cup {Run("join_random", join_random(c, rid)) :
          rid \in IF OpenRoomIds = {} THEN RoomIds ELSE OpenRoomIds}
  \cup {Run("join_by_id", join_by_id(c, rawId)) : rawId \in RawRoomIds}
  \cup {Run("join_room", join_room(c, rawId, view, tok)) :
          rawId \in RawRoomIds, view \in BOOLEAN, tok \in TokArgs}
  \cup {Run("get_frame", get_frame(c, rawId, idx)) : rawId \in RawRoomIds, idx \in IdxArgs}
  \cup {Run("submit_frame", submit_frame(c, rawId, idx, tok, d)) :
          rawId \in RawRoomIds, idx \in IdxArgs, tok \in TokArgs, d \in DataUrls}

AttachingVerbs == {"create_public_and_submit", "join_random", "join_by_id", "join_room", "resync"}

\* C27: a handler run changes the connection's roomId attachment only when the
\* verb is create_public_and_submit, join_random, join_by_id, join_room or
\* resync and the request is not answered with an error.
C27_AttachOnlyOnSuccess ==
  \A c \in clients : \A r \in Runs(c) :
    r.attach # wsRoomId[c] =>
      /\ r.verb \in AttachingVerbs
      /\ \A i \in 1..Len(r.out) : r.out[i].t # "error"

\* every change of the attachment comes from one of the five verbs
AttachOnlyByJoinVerbs ==
  \A c \in clients : \A r \in Runs(c) :
    r.attach # wsRoomId[c] => r.verb \in AttachingVerbs

\* every verb but join_room leaves the attachment alone when it answers an error
ErrorKeepsAttachExceptJoinRoom ==
  \A c \in clients : \A r \in Runs(c) :
    (r.verb # "join_room" /\ \E i \in 1..Len(r.out) : r.out[i].t = "error") =>
      r.attach = wsRoomId[c]

\* the room file of r holds every commit and every unexpired reservation of
\* the room object room
OnDisk(r, room) ==
  /\ r \in DOMAIN disk
  /\ \A f \in Frames : room.committed[f] =>
        disk[r].committed[f] /\ disk[r].frames[f] = room.frames[f]
  /\ \A i \in LiveResv(room.reservations) :
        \E j \in 1..Len(disk[r].reservations) : disk[r].reservations[j] = room.reservations[i]

\* C28: the room object the next getRoom serves from memory holds no commit
\* and no reservation that its room file lacks, whether or not a write failed.
C28_CacheNeverAheadOfDisk ==
  \A r \in DOMAIN cache : OnDisk(r, cache[r].room)

\* the unexpired reservations of a room object
LiveOf(room) == {room.reservations[i] : i \in LiveResv(room.reservations)}

\* room object m equals what deserializing room file obj yields, up to the
\* sweep of expired reservations and the normalisation every access applies
SameRoom(m, obj) ==
  LET d == deserializeRoom(obj, now)
  IN /\ d.frames = m.frames
     /\ d.committed = m.committed
     /\ d.phase = normalizePhase(m).phase
     /\ LiveOf(d) = LiveOf(m)
     /\ Inverse(d)

\* C29: a cached room, at any moment evictCache may drop it, equals what
\* deserializing its room file yields; and for a room that is on disk and not
\* in the cache, every unexpired token of the file is accepted by submit_frame
\* and no join hands out its frame.
C29_EvictedEqualsDisk ==
  /\ \A r \in DOMAIN cache : r \in DOMAIN disk /\ SameRoom(cache[r].room, disk[r])
  /\ \A r \in DOMAIN disk \ DOMAIN cache : ~IsQuarantined(r) =>
       \A e \in LiveOf(deserializeRoom(disk[r], now)) : \A c \in clients :
         /\ "submitted" \in Types(submit_frame(c, r, e.frameIndex, e.tok, "data:image/b"))
         /\ \/ join_by_id(c, r).mint = <<>>
            \/ join_by_id(c, r).mint[1].frameIndex # e.frameIndex

\* room object room lists token t1 for frame f while reservedByFrame[f] names
\* another token
Orphan(room, t1, f) ==
  /\ HasResv(room.reservations, t1)
  /\ ResvGet(room.reservations, t1).frameIndex = f
  /\ room.reservedByFrame[f] # NoTok
  /\ room.reservedByFrame[f] # t1

\* C30: when a room lists token T1 for frame f while reservedByFrame[f] names
\* another token, submit_frame with T1 for f is not answered `submitted`, and
\* cleanupReservations removes T1.
C30_OrphanTokenIgnored ==
  \A r \in DOMAIN cache : \A t1 \in FileToks \cup Toks : \A f \in Frames :
    Orphan(cache[r].room, t1, f) =>
      /\ \A c \in clients :
           "submitted" \notin Types(submit_frame(c, r, f, t1, "data:image/b"))
      /\ ~HasResv(cleanupReservations(cache[r].room, now).reservations, t1)

\* submit_frame never accepts a token other than the one reservedByFrame names
OrphanNotAccepted ==
  \A r \in DOMAIN cache : \A t1 \in FileToks \cup Toks : \A f \in Frames :
    Orphan(cache[r].room, t1, f) =>
      \A c \in clients :
        "submitted" \notin Types(submit_frame(c, r, f, t1, "data:image/b"))

\* room r is served, unfinished, and each of its uncommitted frames is held by
\* an unexpired reservation
FullyReserved(r) ==
  /\ r \in DOMAIN disk
  /\ ~IsQuarantined(r)
  /\ ~AllCommitted(RoomOf(r).committed)
  /\ FreeFrames(r) = {}

\* a run that answers one error to c, reserves nothing and keeps c's attachment
Refused(c, r, R) ==
  /\ Len(R.out) = 1 /\ R.out[1].t = "error" /\ R.out[1].to = c
  /\ R.mint = <<>>
  /\ LiveIn(R.S, r) = LiveIn(Store, r)
  /\ R.attach = wsRoomId[c]

\* C31: a join_random or join_by_id on a DRAWING room whose uncommitted frames
\* are all held by unexpired reservations is answered with an error, makes no
\* reservation and leaves the attachment of the connection as it was.
C31_NoEmptyFrameRefused ==
  \A r \in RoomIds : FullyReserved(r) =>
    \A c \in clients :
      /\ \A rawId \in Naming(r) : Refused(c, r, join_by_id(c, rawId))
      /\ r \in OpenRoomIds => Refused(c, r, join_random(c, r))

\* a connection attached to another room asks for a fully reserved room that
\* join_random may draw
C31_Witness ==
  \E r \in RoomIds, c \in clients :
    /\ FullyReserved(r)
    /\ r \in OpenRoomIds
    /\ wsRoomId[c] \notin {r, ""}
    /\ Types(join_by_id(c, r)) = {"error"}

\* C32: no inbound text frame makes an exception leave the message handler:
\* a frame that is not JSON is dropped, and every frame that parses is
\* dispatched, whatever kind of JSON value it is.
C32_HandlerNeverThrows ==
  \A c \in clients : \A text \in InboundTexts : preamble(text).status # "throws"

\* every frame that parses to something other than null is dispatched
NonNullFramesDispatched ==
  \A c \in clients : \A text \in InboundTexts \ {"null"} :
    preamble(text).status = IF JSON_parse(text).ok THEN "dispatch" ELSE "dropped"

\* get_frame of frame f of room r, asked by c, sends exactly one frame_data
\* that carries payload d
ServesPayload(c, r, f, d) ==
  \A rawId \in Addressing(c, r) :
    LET out == get_frame(c, rawId, f).out
    IN /\ Len(out) = 1
       /\ out[1].t = "frame_data" /\ out[1].to = c
       /\ out[1].roomId = r /\ out[1].frameIndex = f /\ out[1].dataUrl = d

\* get_frame answers from what the room file holds: the stored payload for a
\* committed frame, nothing for an uncommitted one
ServesFile(r) ==
  \A c \in clients : \A f \in Frames :
    IF disk[r].committed[f]
    THEN ServesPayload(c, r, f, disk[r].frames[f])
    ELSE \A rawId \in Addressing(c, r) : get_frame(c, rawId, f).out = <<>>

\* C33: get_frame of a committed frame returns the payload its commit stored,
\* and that payload stays what the one create_public_and_submit or submit_frame
\* that committed the frame carried, through every later step (eviction,
\* reload, commits of other frames); get_frame of an uncommitted frame sends
\* nothing.
C33_FrameDataIsCommittedPayload ==
  [][\A r \in DOMAIN disk :
       /\ ~IsQuarantined(r) => ServesFile(r)
       /\ \A f \in Frames : disk[r].committed[f] =>
            /\ r \in DOMAIN disk'
            /\ disk'[r].committed[f]
            /\ disk'[r].frames[f] = disk[r].frames[f]]_vars

\* get_frame serves what the room file holds, committed or not
GetFrameServesFile ==
  \A r \in DOMAIN disk : ~IsQuarantined(r) => ServesFile(r)

BroadcastTypes == {"frame_committed", "start_playback", "room_state"}

\* the envelopes of a result that go to connection c
ToConn(R, c) == {i \in 1..Len(R.out) : R.out[i].to = c}

\* result R, which commits a frame of room r, sends its broadcasts to exactly
\* the open connections attached to r, and everything it sends names r
ScopedTo(R, r) ==
  /\ \A i \in 1..Len(R.out) : R.out[i].to \in clients /\ R.out[i].roomId = r
  /\ \A c \in clients :
       IF wsRoomId[c] = r
       THEN /\ Cardinality(At(R, c, "frame_committed")) = 1
            /\ AllCommitted(R.S.cache[r].room.committed) =>
                 /\ Cardinality(At(R, c, "start_playback")) = 1
                 /\ Cardinality(At(R, c, "room_state")) = 1
       ELSE \A t \in BroadcastTypes : At(R, c, t) = {}

\* C34: the frame_committed, start_playback and completion room_state of a
\* commit in room r go to exactly the open connections whose attachment is r:
\* a connection attached to another room gets none of them, and a submitter
\* that is not attached to r gets `submitted` and nothing else.
C34_BroadcastScopedToAttached ==
  \A c \in clients, r \in RoomIds, idx \in Frames, tok \in Toks :
    LET R == submit_frame(c, r, idx, tok, "data:image/b")
    IN "submitted" \in Types(R) =>
         /\ ScopedTo(R, r)
         /\ Cardinality(At(R, c, "submitted")) = 1
         /\ wsRoomId[c] # r => ToConn(R, c) = At(R, c, "submitted")

\* a commit completes room r while one connection is attached to r and the
\* submitter is attached to the other room
C34_Witness ==
  \E c, c2 \in clients, r \in RoomIds, idx \in Frames, tok \in Toks :
    LET R == submit_frame(c, r, idx, tok, "data:image/b")
    IN /\ "submitted" \in Types(R)
       /\ wsRoomId[c] \notin {r, ""}
       /\ wsRoomId[c2] = r
       /\ At(R, c2, "start_playback") # {}

\* in store S every room that has a file has an index entry whose filledCount
\* is the number of committed frames of the file and whose completed flag
\* says whether all are committed, and rooms_index.json loads to the index
\* held in memory
IndexMatches(S) ==
  /\ \A r \in DOMAIN S.disk :
       /\ r \in DOMAIN S.index
       /\ S.index[r].filledCount = FilledCount(S.disk[r].committed)
       /\ S.index[r].completed = AllCommitted(S.disk[r].committed)
  /\ loadIndex(S.readable, S.diskIndex) = S.index

\* C35: a handler run during which no write fails leaves, for every room with
\* a file, an index entry that matches the file, and rooms_index.json equal to
\* the index in memory.
C35_IndexMatchesFiles ==
  diskWritable =>
    \A c \in clients :
      /\ \A rawId \in RawRoomIds :
           /\ IndexMatches(resync(c, rawId).S)
           /\ IndexMatches(join_by_id(c, rawId).S)
           /\ \A view \in BOOLEAN, tok \in TokArgs : IndexMatches(join_room(c, rawId, view, tok).S)
           /\ \A idx \in IdxArgs :
                /\ IndexMatches(get_frame(c, rawId, idx).S)
                /\ \A tok \in TokArgs, d \in DataUrls :
                     IndexMatches(submit_frame(c, rawId, idx, tok, d).S)
      /\ \A d \in DataUrls, newId \in RoomIds :
           IndexMatches(create_public_and_submit(c, d, newId).S)
      /\ \A rid \in DOMAIN index : IndexMatches(join_random(c, rid).S)

\* this step creates the backup directory of the present time, with a copy of
\* the room file of r and a manifest that lists r
BackedUpNow(r) ==
  /\ backupLog' # backupLog
  /\ stamp(now) \in DOMAIN backups'
  /\ r \in backups'[stamp(now)].manifest
  /\ r \in DOMAIN backups'[stamp(now)].files
  /\ r \in DOMAIN disk
  /\ backups'[stamp(now)].files[r] = disk[r]

\* C36: a room id leaves the dirty set only in a step that creates a backup
\* directory holding a copy of the room's current file and a manifest that
\* lists it.
C36_DirtyClearedOnlyByBackup ==
  [][\A r \in dirtyRoomIds \ dirtyRoomIds' : BackedUpNow(r)]_vars

\* the cache after an eviction run in the present state
Evicted == evictCacheWith(Store, now, EvictIdleMs, ROOM_CACHE_MAX).cache
\* the entries an eviction run removes although they are not idle
SizeEvicted ==
  {id \in DOMAIN cache \ DOMAIN Evicted : ~((now - cache[id].lastAccess) > EvictIdleMs)}

\* C37: right after an eviction run the cache holds no entry idle for more
\* than ROOM_CACHE_IDLE_MS and at most ROOM_CACHE_MAX entries, every entry
\* kept is unchanged, and every entry removed by size eviction has a
\* lastAccess no later than that of every entry kept.
C37_EvictionBounds ==
  /\ DOMAIN Evicted \subseteq DOMAIN cache
  /\ \A id \in DOMAIN Evicted :
       /\ Evicted[id] = cache[id]
       /\ ~((now - Evicted[id].lastAccess) > EvictIdleMs)
  /\ Cardinality(DOMAIN Evicted) <= ROOM_CACHE_MAX
  /\ \A gone \in SizeEvicted, kept \in DOMAIN Evicted :
       cache[gone].lastAccess <= cache[kept].lastAccess

\* an eviction run removes by size a room read earlier than the one it keeps
C37_Witness ==
  \E gone \in SizeEvicted, kept \in DOMAIN Evicted :
    cache[gone].lastAccess < cache[kept].lastAccess

\* an eviction run removes an idle room and keeps another
C37_IdleWitness ==
  /\ DOMAIN Evicted # {}
  /\ \E id \in DOMAIN cache \ DOMAIN Evicted : (now - cache[id].lastAccess) > EvictIdleMs

\* the room a submit_frame of connection c with roomId rawId is about
Named(c, rawId) == normalizeRoomId(OrElse(rawId, wsRoomId[c]))

\* token tok was issued, and not for frame idx of the room the message names
Misdirected(c, rawId, idx, tok) ==
  /\ tok \in 1..Len(issued)
  /\ \/ Named(c, rawId) # issued[tok].roomId
     \/ idx # issued[tok].frameIndex

\* C38: a submit_frame that carries an issued token and names another room or
\* another frame than the token was issued for commits nothing (no
\* `submitted`, no frame_committed, frames and committed flags of every room
\* unchanged) and consumes no reservation.
C38_TokenBoundToRoomAndFrame ==
  \A c \in clients, rawId \in RawRoomIds, idx \in IdxArgs, tok \in Toks, d \in DataUrls :
    Misdirected(c, rawId, idx, tok) =>
      LET R == submit_frame(c, rawId, idx, tok, d)
      IN /\ Types(R) = {"error"}
         /\ Content(R.S) = Content(Store)
         /\ \A r \in DOMAIN disk : LiveIn(Store, r) \subseteq LiveIn(R.S, r)

\* a token that would commit its own frame of its own room is refused for
\* another frame of that room and for the same frame of another open room,
\* and is still held afterwards
C38_Witness ==
  \E c \in clients, tok \in 1..Len(issued), other \in RoomIds, idx \in Frames :
    LET r == issued[tok].roomId
        f == issued[tok].frameIndex
        wrongRoom == submit_frame(c, other, f, tok, "data:image/a")
        wrongFrame == submit_frame(c, r, idx, tok, "data:image/a")
    IN /\ other # r
       /\ idx # f
       /\ "submitted" \in Types(submit_frame(c, r, f, tok, "data:image/a"))
       /\ \E i \in 1..Len(wrongRoom.out) : wrongRoom.out[i].message = ERR_RESERVATION
       /\ \E i \in 1..Len(wrongFrame.out) : wrongFrame.out[i].message = ERR_MISMATCH
       /\ \E e \in LiveIn(wrongRoom.S, r) : e.tok = tok
       /\ \E e \in LiveIn(wrongFrame.S, r) : e.tok = tok

\* the messages of the error envelopes of a handler run
Messages(R) == {R.out[i].message : i \in {k \in 1..Len(R.out) : R.out[k].t = "error"}}

\* a submit_frame of c for frame idx gets as far as the reservation lookup
\* (lines 1108-1138 passed) and frame idx of the room it names is committed
LooksUpCommitted(c, rawId, idx, tok) ==
  /\ Named(c, rawId) # ""
  /\ ~IsQuarantined(Named(c, rawId))
  /\ CanGetRoom(Store, Named(c, rawId))
  /\ ~AllCommitted(HeldIn(Store, Named(c, rawId)).committed)
  /\ idx \in Frames
  /\ tok # NoTok
  /\ HeldIn(Store, Named(c, rawId)).committed[idx]

\* C40 as stated: a submit_frame for a committed frame that reaches the
\* reservation lookup is answered with the invalid/expired reservation error.
C40_RejectedAtTokenCheck ==
  \A c \in clients, rawId \in RawRoomIds, idx \in IdxArgs, tok \in TokArgs \cup FileToks, d \in DataUrls :
    LooksUpCommitted(c, rawId, idx, tok) =>
      Messages(submit_frame(c, rawId, idx, tok, d)) = {ERR_RESERVATION}

\* C40: no submit_frame is answered `already submitted`; one for a committed
\* frame that reaches the reservation lookup is answered with a single error,
\* the invalid/expired reservation error or, when its token is a live
\* reservation of another, uncommitted frame of the room, the frame mismatch
\* error.
C40_AlreadyBranchDead ==
  \A c \in clients, rawId \in RawRoomIds, idx \in IdxArgs, tok \in TokArgs \cup FileToks, d \in DataUrls :
    LET R == submit_frame(c, rawId, idx, tok, d)
        room == HeldIn(Store, Named(c, rawId))
    IN /\ ERR_ALREADY \notin Messages(R)
       /\ LooksUpCommitted(c, rawId, idx, tok) =>
            /\ Types(R) = {"error"}
            /\ Len(R.out) = 1
            /\ Messages(R) \subseteq {ERR_RESERVATION, ERR_MISMATCH}
            /\ ERR_MISMATCH \in Messages(R) =>
                 \E e \in LiveIn(Store, Named(c, rawId)) :
                   e.tok = tok /\ e.frameIndex # idx /\ ~room.committed[e.frameIndex]

\* a submit_frame has committed a frame of a room that stays open, and a
\* later submit_frame for that frame, token and payload well-formed, is
\* answered with the invalid/expired reservation error
C40_Witness ==
  \E c \in clients, r \in RoomIds, idx \in Frames, tok \in Toks \cup FileToks :
    /\ <<r, idx>> \in announced
    /\ submittedCnt[<<r, idx>>] > 0
    /\ LooksUpCommitted(c, r, idx, tok)
    /\ Messages(submit_frame(c, r, idx, tok, "data:image/b")) = {ERR_RESERVATION}

\* a submit_frame for a committed frame that carries a live token of another
\* frame is answered with the frame mismatch error
C40_MismatchWitness ==
  \E c \in clients, r \in RoomIds, idx \in Frames, tok \in Toks \cup FileToks :
    /\ LooksUpCommitted(c, r, idx, tok)
    /\ Messages(submit_frame(c, r, idx, tok, "data:image/b")) = {ERR_MISMATCH}

\* ------------------------------------------------------- progress ----
\* Two clients fill one room id: they create, join when the room has no
\* unexpired reservation, and submit what they were assigned.  Tokens are
\* not numbered here (a room holds at most one at a time), so the run can go
\* on for ever in finitely many states; the clock stops at MaxLiveTime, after
\* which no reservation expires any more.
MaxLiveTime == 2

HandledLive(c, R) ==
  /\ cache' = R.S.cache
  /\ cacheOrder' = R.S.order
  /\ disk' = R.S.disk
  /\ index' = R.S.index
  /\ diskIndex' = R.S.diskIndex
  /\ indexReadable' = R.S.readable
  /\ dirtyRoomIds' = R.S.dirty
  /\ wsRoomId' = [wsRoomId EXCEPT ![c] = R.attach]
  /\ UNCHANGED <<now, quarantineSet, diskQuarantine, clients, histVars, sideVars>>

CreateLive(c, newId) ==
  /\ c \in clients
  /\ \E Q \in {create_public_and_submit(c, "data:image/a", newId)} : HandledLive(c, Q)

\* join_by_id that is assigned a frame
JoinLive(c, r) ==
  /\ c \in clients
  /\ r \in DOMAIN disk
  /\ \A e \in LiveIn(Store, r) : FALSE
  /\ \E Q \in {join_by_id(c, r)} : Q.mint # <<>> /\ HandledLive(c, Q)

\* submit_frame that commits
SubmitLive(c, r, idx, tok) ==
  /\ c \in clients
  /\ \E Q \in {submit_frame(c, r, idx, tok, "data:image/b")} :
        "submitted" \in Types(Q) /\ HandledLive(c, Q)

Joins == \E c \in Conns, r \in ConnRoomIds : JoinLive(c, r)
Submits == \E c \in Conns, r \in ConnRoomIds, idx \in Frames : SubmitLive(c, r, idx, token)

NextLive ==
  \/ TickWithin(MaxLiveTime)
  \/ \E c \in Conns : Connect(c)
  \/ \E c \in Conns, newId \in ConnRoomIds : CreateLive(c, newId)
  \/ Joins
  \/ Submits

\* ENABLED <<Joins>>_vars and ENABLED <<Submits>>_vars, as state predicates:
\* the steps assign every variable they change, and a join that is assigned
\* a frame and a submit that commits always change the room
JoinsEnabled ==
  \E c \in clients, r \in ConnRoomIds :
    /\ r \in DOMAIN disk
    /\ \A e \in LiveIn(Store, r) : FALSE
    /\ join_by_id(c, r).mint # <<>>

SubmitsEnabled ==
  \E c \in clients, r \in ConnRoomIds, idx \in Frames :
    "submitted" \in Types(submit_frame(c, r, idx, token, "data:image/b"))

\* Time passes and clients connect (weak fairness), clients keep joining and
\* a reservation that is held again and again is submitted (strong fairness
\* of Joins and of Submits).  SF_vars(A) is <>[]~ENABLED <<A>>_vars \/
\* []<><<A>>_vars; for Joins and Submits it is written in that form with
\* the two predicates above in the place of ENABLED.
SpecLive ==
  /\ Init
  /\ [][NextLive]_vars
  /\ WF_vars(TickWithin(MaxLiveTime))
  /\ WF_vars(\E c \in Conns : Connect(c))
  /\ (<>[](~JoinsEnabled)) \/ ([]<><<Joins>>_vars)
  /\ (<>[](~SubmitsEnabled)) \/ ([]<><<Submits>>_vars)

\* room r exists, is not quarantined and is not complete
Unfinished(r) ==
  /\ r \in DOMAIN disk
  /\ r \notin quarantineSet
  /\ ~AllCommitted(HeldIn(Store, r).committed)

\* room r is in PLAYBACK, in memory and in its file
Playing(r) ==
  /\ r \in DOMAIN disk
  /\ disk[r].phase = "PLAYBACK"
  /\ HeldIn(Store, r).phase = "PLAYBACK"

\* C39: when clients keep joining and every reservation is submitted or
\* expires, an unfinished room that is not quarantined reaches PLAYBACK.
C39_RoomEventuallyPlays ==
  \A r \in ConnRoomIds : Unfinished(r) ~> Playing(r)

====
